---- MODULE Spec2Model ----
(***************************************************************************)
(* A model of bb-storage's circular storage backend (circularBlobAccess:   *)
(* Get, Put, FindMissing over an offset store, a data store and a state    *)
(* store, serialised by one mutex), of the HTTP remote backend             *)
(* (remoteBlobAccess), of the ByteStream server's Write, of GetFile and    *)
(* PutFile of the content addressable storage, and of the local, mirrored  *)
(* and sharding backends as their configuration describes them.            *)
(* Goroutines are the processes of Procs; every lock acquisition, every    *)
(* call on a store and every byte moved to or from the data file is a      *)
(* step of its own, so that all interleavings the mutex permits are        *)
(* explored.                                                               *)
(***************************************************************************)
EXTENDS Integers, Sequences, FiniteSets, TLC

VARIABLES
    lock,         \* ba.lock: "free" or the goroutine holding it
    cursors,      \* the state store's cursors: [Read, Write]
    offsetStore,  \* the offset store: digest -> [offset, length] or NoEntry
    dataStore,    \* the data file: physical position -> byte
    pc,           \* per goroutine: position in the operation it executes
    frame,        \* per goroutine: arguments and locals of that operation
    httpStore,    \* the remote HTTP cache: hash -> stored body or NoBody
    puts,         \* history: digest -> number of Puts that recorded it (capped at 2)
    blockList,    \* the local backend's blocks: [old, current, new, epoch]
    mirror        \* the two backends of the mirrored backend: [A, B]

vars == <<lock, cursors, offsetStore, dataStore, pc, frame, httpStore, puts,
          blockList, mirror>>

circularVars == <<lock, cursors, offsetStore, dataStore>>

\* The state of the composite backends.
backendVars == <<blockList, mirror>>

----------------------------------------------------------------------------
(* Bounds of the model.                                                    *)

\* Capacity of the data file in bytes (data_file_size_bytes).
DataFileSize == 2

\* No Put is started that would move the write cursor beyond this value.
MaxCursor == 3

\* The goroutines calling into the backends.
Procs == {"g1", "g2"}

Free == "free"

\* The error of a Put whose region was evicted while it wrote.
Stale == "Data became stale before write completed"

----------------------------------------------------------------------------
(* Digests, blobs and buffers.                                             *)

\* The blobs clients store; bytes are small non-zero numbers, the data file
\* starts zero-filled.
Blobs == { <<1>>, <<2, 3>> }

RECURSIVE HashOf(_)
\* A stand-in for the cryptographic hash of a byte sequence: injective on
\* sequences of bytes in 0..3.
HashOf(bytes) ==
    IF bytes = <<>> THEN 1 ELSE 1 + bytes[1] + 4 * HashOf(Tail(bytes))

NewDigest(bytes) == [hash |-> HashOf(bytes), sizeBytes |-> Len(bytes)]

Digests == { NewDigest(blob) : blob \in Blobs }

PayloadOf(digest) == CHOOSE blob \in Blobs : NewDigest(blob) = digest

NoDigest == [hash |-> 0, sizeBytes |-> 0]

\* The digests clients use with the remote HTTP cache.
RemoteDigests == { NewDigest(<<1>>) }

\* digest.GetHashString(): the key of a blob in the remote HTTP cache.
Hashes == { d.hash : d \in Digests }

\* No body is stored under a key of the remote HTTP cache.
NoBody == <<>>

\* The buffers handed to Put.
\*   valid   - holds the blob the digest names;
\*   error   - a buffer created from an error: its size query fails;
\*   slice   - a validated byte slice holding another blob, so that the
\*             declared size differs from digest.sizeBytes;
\*   corrupt - a CAS buffer over a user provided reader that yields wrong
\*             bytes: reading it ends in DataCorrupted.
BufferKinds == {"valid", "error", "slice", "corrupt"}

OtherBlob(digest) == CHOOSE blob \in Blobs : blob # PayloadOf(digest)

BufferBytes(kind, digest) ==
    CASE kind = "valid"   -> PayloadOf(digest)
      [] kind = "slice"   -> OtherBlob(digest)
      [] kind = "corrupt" -> [k \in 1..digest.sizeBytes |-> 0]
      [] OTHER            -> <<>>

\* b.GetSizeBytes(): the declared size, or an error.
GetSizeBytes(kind, digest) ==
    IF kind = "error"
    THEN [err |-> "BufferError", sizeBytes |-> 0]
    ELSE [err |-> "nil", sizeBytes |-> Len(BufferBytes(kind, digest))]

\* The check a CAS buffer applies to the bytes it has read.
Verifies(digest, bytes) ==
    Len(bytes) = digest.sizeBytes /\ HashOf(bytes) = digest.hash

----------------------------------------------------------------------------
(* The three stores of the circular backend.                               *)

NoEntry == [offset |-> 0, length |-> 0]

\* Cursors.Contains: the region [offset, offset+length) is live.
Contains(c, offset, length) ==
    c.Read <= offset /\ offset + length <= c.Write

Max(a, b) == IF a >= b THEN a ELSE b

\* StateStore.Allocate: the cursors after allocating sizeBytes at c.Write.
Allocate(c, sizeBytes) ==
    [Read  |-> Max(c.Read, c.Write + sizeBytes - DataFileSize),
     Write |-> c.Write + sizeBytes]

\* StateStore.Invalidate: the cursors after invalidating a region.
Invalidate(c, offset, length) ==
    IF Contains(c, offset, length)
    THEN [c EXCEPT !.Read = offset + length]
    ELSE c

\* OffsetStore.Get(digest, cursors): (offset, length, ok).
OffsetStoreGet(os, digest, c) ==
    IF os[digest] # NoEntry /\ Contains(c, os[digest].offset, os[digest].length)
    THEN [ok |-> TRUE, offset |-> os[digest].offset, length |-> os[digest].length]
    ELSE [ok |-> FALSE, offset |-> 0, length |-> 0]

\* OffsetStore.Put(digest, offset, length, cursors).
OffsetStorePut(os, digest, offset, length, c) ==
    [os EXCEPT ![digest] = [offset |-> offset, length |-> length]]

\* Physical position of a logical offset in the data file.
Position(offset) == offset % DataFileSize

\* DataStore.Get(offset, size), read k bytes in.
DataStoreGetByte(ds, offset, k) == ds[Position(offset + k)]

\* DataStore.Put(r, offset), after k bytes: byte k+1 of the reader lands.
DataStorePutByte(ds, offset, k, byte) ==
    [ds EXCEPT ![Position(offset + k)] = byte]

----------------------------------------------------------------------------
(* ByteStream resource names.  A name is a sequence of atoms: "/" or a     *)
(* piece of text that holds no slash; the text between two slashes is the  *)
(* sequence of the atoms between them.                                     *)

Slash == "/"

Digit == {"0", "1", "2", "3", "4", "5", "6", "7", "8", "9"}

DigitValue(c) ==
    CASE c = "0" -> 0 [] c = "1" -> 1 [] c = "2" -> 2 [] c = "3" -> 3
      [] c = "4" -> 4 [] c = "5" -> 5 [] c = "6" -> 6 [] c = "7" -> 7
      [] c = "8" -> 8 [] OTHER -> 9

DigitOf(n) ==
    CASE n = 0 -> "0" [] n = 1 -> "1" [] n = 2 -> "2" [] n = 3 -> "3"
      [] n = 4 -> "4" [] n = 5 -> "5" [] n = 6 -> "6" [] n = 7 -> "7"
      [] n = 8 -> "8" [] OTHER -> "9"

RECURSIVE FieldsFrom(_, _, _)
\* strings.FieldsFunc(s, r == '/'): the maximal runs of atoms other than
\* "/", in order; i is the position read next, field the run collected.
FieldsFrom(s, i, field) ==
    IF i > Len(s)
    THEN IF field = <<>> THEN <<>> ELSE <<field>>
    ELSE IF s[i] = Slash
    THEN IF field = <<>>
         THEN FieldsFrom(s, i + 1, <<>>)
         ELSE <<field>> \o FieldsFrom(s, i + 1, <<>>)
    ELSE FieldsFrom(s, i + 1, Append(field, s[i]))

FieldsFunc(s) == FieldsFrom(s, 1, <<>>)

RECURSIVE ParseDigits(_, _)
\* The value of a run of decimal digits after the digits read so far.
ParseDigits(digits, value) ==
    IF digits = <<>> THEN value
    ELSE ParseDigits(Tail(digits), 10 * value + DigitValue(digits[1]))

\* strconv.ParseInt(s, 10, 64): an optional sign and one or more decimal
\* digits (values stay far below 2^63), anything else is an error.
ParseInt(s) ==
    LET signed == s # <<>> /\ s[1] \in {"+", "-"}
        digits == IF signed THEN Tail(s) ELSE s
    IN IF digits = <<>> \/ \E i \in 1..Len(digits) : digits[i] \notin Digit
       THEN [err |-> "SyntaxError", value |-> 0]
       ELSE [err |-> "nil",
             value |-> IF signed /\ s[1] = "-"
                       THEN 0 - ParseDigits(digits, 0)
                       ELSE ParseDigits(digits, 0)]

RECURSIVE FormatInt(_)
\* The decimal digits of a natural number.
FormatInt(n) ==
    IF n < 10 THEN <<DigitOf(n)>>
    ELSE Append(FormatInt(n \div 10), DigitOf(n % 10))

\* digest.GetHashString() of the digest of a payload: the rendering of the
\* hash as text (decimal digits stand in for hexadecimal ones).
HashString(bytes) == FormatInt(HashOf(bytes))

\* The messages of the errors of the ByteStream service.
InvalidName == "Invalid resource naming scheme"

InvalidDigest == "Invalid digest"

ClosedTwice == "Client closed stream twice"

UnexpectedOffset == "Attempted to write at an offset other than the expected one"

ClosedUnfinished == "Client closed stream without finishing write"

\* The gRPC status code of an error: status.Error(codes.InvalidArgument, _)
\* for the errors above; an error that carries no status is Unknown.
Code(err) ==
    IF err = "nil" THEN "OK"
    ELSE IF err \in {InvalidName, InvalidDigest, ClosedTwice, UnexpectedOffset,
                     ClosedUnfinished}
    THEN "InvalidArgument"
    ELSE IF err = "DataCorrupted" THEN "DataCorrupted"
    ELSE "Unknown"

NoWriteDigest == [instance |-> <<>>, hash |-> <<>>, sizeBytes |-> 0]

\* util.NewDigest(instance, {Hash, SizeBytes}): the digest, or
\* InvalidArgument for a hash that is no run of digits or a negative size.
UtilNewDigest(instance, hash, sizeBytes) ==
    IF hash = <<>> \/ (\E i \in 1..Len(hash) : hash[i] \notin Digit) \/ sizeBytes < 0
    THEN [err |-> InvalidDigest, digest |-> NoWriteDigest]
    ELSE [err |-> "nil",
          digest |-> [instance |-> instance, hash |-> hash, sizeBytes |-> sizeBytes]]

\* A parseResourceNameWrite that does not look at the "blobs" keyword.
parseResourceNameWriteAnyKeyword(resourceName) ==
    LET fields == FieldsFunc(resourceName)
        l == Len(fields)
    IN IF (l # 5 /\ l # 6) \/ fields[l - 4] # <<"uploads">>
       THEN [err |-> InvalidName, digest |-> NoWriteDigest]
       ELSE LET size == ParseInt(fields[l])
            IN IF size.err # "nil"
               THEN [err |-> InvalidName, digest |-> NoWriteDigest]
               ELSE UtilNewDigest(IF l = 6 THEN fields[1] ELSE <<>>,
                                  fields[l - 1], size.value)

\* parseResourceNameWrite(resourceName)
parseResourceNameWrite(resourceName) ==
    LET fields == FieldsFunc(resourceName)
        l == Len(fields)
    IN IF (l # 5 /\ l # 6) \/ fields[l - 4] # <<"uploads">> \/ fields[l - 2] # <<"blobs">>
       THEN [err |-> InvalidName, digest |-> NoWriteDigest]
       ELSE LET size == ParseInt(fields[l])
            IN IF size.err # "nil"
               THEN [err |-> InvalidName, digest |-> NoWriteDigest]
               ELSE UtilNewDigest(IF l = 6 THEN fields[1] ELSE <<>>,
                                  fields[l - 1], size.value)

RECURSIVE Join(_)
\* The path components joined by single slashes.
Join(fields) ==
    IF fields = <<>> THEN <<>>
    ELSE IF Len(fields) = 1 THEN fields[1]
    ELSE fields[1] \o <<Slash>> \o Join(Tail(fields))

\* The payload ByteStream clients upload, and the pieces its resource names
\* are made of.
WriteBlob == <<1>>

WellFormedNames ==
    { <<<<"uploads">>, <<"u">>, <<"blobs">>, HashString(WriteBlob), FormatInt(Len(WriteBlob))>>,
      <<<<"i">>, <<"uploads">>, <<"u">>, <<"blobs">>, HashString(WriteBlob),
        FormatInt(Len(WriteBlob))>> }

\* Path components a client may put where another one belongs; the empty
\* one gives a leading, trailing or doubled slash.
OtherFields ==
    { <<>>, <<"uploads">>, <<"blobs">>, <<"i">>, <<"1">>, <<"-", "1">>, <<"1", "x">> }

ReplaceAt(fields, k, field) == [fields EXCEPT ![k] = field]

InsertAt(fields, k, field) ==
    SubSeq(fields, 1, k - 1) \o <<field>> \o SubSeq(fields, k, Len(fields))

RemoveAt(fields, k) ==
    SubSeq(fields, 1, k - 1) \o SubSeq(fields, k + 1, Len(fields))

\* The resource names of first requests: the two forms, and each of them
\* with one component replaced, added or left out.
ResourceNames ==
    UNION { { Join(g) }
            \cup { Join(ReplaceAt(g, k, f)) : k \in 1..Len(g), f \in OtherFields }
            \cup { Join(InsertAt(g, k, f)) : k \in 1..(Len(g) + 1), f \in OtherFields }
            \cup { Join(RemoveAt(g, k)) : k \in 1..Len(g) }
          : g \in WellFormedNames }

----------------------------------------------------------------------------
(* Frames.                                                                 *)

\* The locals of byteStreamServer.Write and the fields of its
\* byteStreamWriteServerChunkReader (writeOffset, data, finishedWrite), with
\* what the stream and the backend have seen of it:
\*   received  - the requests stream.Recv() has returned, in order;
\*   closed    - stream.Recv() has returned io.EOF;
\*   delivered - the bytes Read() has handed to the backend's Put;
\*   put       - "none", "running", "nil" or the error Put returned;
\*   response  - the CommittedSize of the WriteResponse sent, -1 if none.
NoWrite ==
    [resourceName |-> <<>>, digest |-> NoWriteDigest,
     writeOffset |-> 0, data |-> <<>>, finishedWrite |-> FALSE,
     received |-> <<>>, closed |-> FALSE, delivered |-> <<>>,
     put |-> "none", response |-> -1]

\* The locals of PutFile, with the file it has open and what the backend
\* has seen of it:
\*   file      - the bytes of the file, which other writers append to;
\*   appends   - the number of appends since the file was opened;
\*   hashed    - the bytes io.Copy has written to the digest generator;
\*   sizeBytes - the number of bytes io.Copy has returned;
\*   digest    - digestGenerator.Sum();
\*   uploaded  - the bytes the backend's Put has read from the buffer;
\*   closed    - the file has been closed;
\*   put       - "none", "running", "nil" or the error Put returned.
NoPutFile ==
    [file |-> <<>>, appends |-> 0, hashed |-> <<>>, sizeBytes |-> 0,
     digest |-> NoDigest, uploaded |-> <<>>, closed |-> FALSE, put |-> "none"]

\* No entry of the directory has the name.
NoFile == [present |-> FALSE, contents |-> <<>>]

\* The directory entry of the name GetFile is called with, and what GetFile
\* has done:
\*   before  - the entry when GetFile was called;
\*   entry   - the entry now;
\*   created - directory.OpenAppend has created the file;
\*   gets    - the number of calls of cas.blobAccess.Get;
\*   removes - the number of calls of directory.Remove;
\*   closed  - w.Close() has run.
NoGetFile ==
    [before |-> NoFile, entry |-> NoFile, created |-> FALSE, gets |-> 0,
     removes |-> 0, closed |-> FALSE]

----------------------------------------------------------------------------
(* The block ring of the local backend (spec.md, sections 3, 4.3, 4.6).    *)

\* The configuration: old_blocks, current_blocks, new_blocks and
\* block_size_bytes.
OldBlocks == 1

CurrentBlocks == 1

NewBlocks == 2

BlockSizeBytes == 2

\* Bound on the number of rotations.
MaxEpoch == 4

\* The blocks created at startup, oldest first: a block has a stable id,
\* the epoch at which it became new, and its write offset.
StartBlock(id) == [id |-> id, epoch |-> 0, offset |-> 0]

InitialBlockList ==
    [old |-> [k \in 1..OldBlocks |-> StartBlock(k)],
     current |-> [k \in 1..CurrentBlocks |-> StartBlock(OldBlocks + k)],
     new |-> [k \in 1..NewBlocks |-> StartBlock(OldBlocks + CurrentBlocks + k)],
     epoch |-> 0]

\* A rotation that moves the first new block to the current ones and
\* recycles the oldest old block, without moving a current block to the
\* old ones.
RotateWithoutAgeing(bl) ==
    [old |-> Tail(bl.old),
     current |-> Append(bl.current, bl.new[1]),
     new |-> Append(Tail(bl.new),
                    [id |-> bl.old[1].id, epoch |-> bl.epoch + 1, offset |-> 0]),
     epoch |-> bl.epoch + 1]

\* Rotation: the oldest old block becomes a fresh new block with a bumped
\* epoch, its content abandoned, and the partition wheel advances by one
\* slot: the first new block becomes current, the oldest current one old.
Rotate(bl) ==
    [old |-> Append(Tail(bl.old), bl.current[1]),
     current |-> Append(Tail(bl.current), bl.new[1]),
     new |-> Append(Tail(bl.new),
                    [id |-> bl.old[1].id, epoch |-> bl.epoch + 1, offset |-> 0]),
     epoch |-> bl.epoch + 1]

\* The space asked for fits in the block after its write offset.
Fits(block, sizeBytes) == block.offset + sizeBytes <= BlockSizeBytes

\* The locals of an allocation: the position of the new block chosen, the
\* rotations made for it, and the (block_id, offset, epoch) returned.
NoAllocation == [index |-> 0, rotations |-> 0, blockId |-> 0, offset |-> 0, epoch |-> 0]

\* The locals of a mirrored FindMissing: the digests each backend has
\* reported missing (a sequence, in the order of the list), and whether
\* each backend has answered.
NoMirrored ==
    [missingA |-> <<>>, missingB |-> <<>>, askedA |-> FALSE, askedB |-> FALSE]

\* The routing of a request by the sharding backend: the shard list and
\* hash_initialization of the backend, the key of the digest, and the
\* position of the shard chosen.
NoRoute == [shards |-> <<>>, seed |-> 0, key |-> 0, shard |-> 0]

NoCursors == [Read |-> 0, Write |-> 0]

IdleFrame ==
    [op |-> "none", digest |-> NoDigest, b |-> "none", sizeBytes |-> 0,
     offset |-> 0, length |-> 0, ok |-> FALSE, cursors |-> NoCursors,
     err |-> "nil", data |-> <<>>, digests |-> <<>>, missingDigests |-> <<>>,
     discards |-> 0, readers |-> 0, closes |-> 0, repairs |-> 0,
     invalidated |-> NoEntry, repaired |-> FALSE, inserted |-> FALSE,
     status |-> 0, cancelled |-> FALSE, wr |-> NoWrite, probes |-> <<>>,
     pf |-> NoPutFile, gf |-> NoGetFile, la |-> NoAllocation,
     mf |-> NoMirrored, sh |-> NoRoute]

Bump(n) == IF n < 2 THEN n + 1 ELSE 2

Init ==
    /\ lock = Free
    /\ cursors = [Read |-> 0, Write |-> 0]
    /\ offsetStore = [d \in Digests |-> NoEntry]
    /\ dataStore = [i \in 0..(DataFileSize - 1) |-> 0]
    /\ pc = [p \in Procs |-> "idle"]
    /\ frame = [p \in Procs |-> IdleFrame]
    /\ httpStore = [h \in Hashes |-> NoBody]
    /\ puts = [d \in Digests |-> 0]
    /\ blockList = InitialBlockList
    /\ mirror = [A |-> {}, B |-> {}]

----------------------------------------------------------------------------
(* circularBlobAccess.Put                                                  *)

\* A Put that compares the declared size with digest.sizeBytes and rejects
\* a difference with InvalidArgument, as the BlobAccess contract words it;
\* circularBlobAccess.Put has no such comparison.
PutCallCheckingSize(p, digest, kind) ==
    /\ pc[p] = "idle"
    /\ LET s == GetSizeBytes(kind, digest) IN
       IF s.err # "nil" \/ s.sizeBytes # digest.sizeBytes
       THEN /\ frame' = [frame EXCEPT ![p] =
                    [IdleFrame EXCEPT !.op = "Put", !.digest = digest, !.b = kind,
                                      !.err = IF s.err # "nil" THEN s.err
                                              ELSE "InvalidArgument",
                                      !.sizeBytes = s.sizeBytes,
                                      !.discards = 1]]
            /\ pc' = [pc EXCEPT ![p] = "done"]
            /\ lock' = lock
       ELSE /\ cursors.Write + s.sizeBytes <= MaxCursor
            /\ lock = Free
            /\ lock' = p
            /\ frame' = [frame EXCEPT ![p] =
                    [IdleFrame EXCEPT !.op = "Put", !.digest = digest, !.b = kind,
                                      !.sizeBytes = s.sizeBytes, !.readers = 1]]
            /\ pc' = [pc EXCEPT ![p] = "put_alloc"]
    /\ UNCHANGED <<backendVars, cursors, offsetStore, dataStore, httpStore, puts>>

\* Put is called: b.GetSizeBytes(); on failure b.Discard() and return;
\* otherwise r := b.ToReader() with r.Close() deferred, and ba.lock.Lock()
\* (the call is taken to begin when the lock is granted).
PutCall(p, digest, kind) ==
    /\ pc[p] = "idle"
    /\ LET s == GetSizeBytes(kind, digest) IN
       IF s.err # "nil"
       THEN /\ frame' = [frame EXCEPT ![p] =
                    [IdleFrame EXCEPT !.op = "Put", !.digest = digest, !.b = kind,
                                      !.err = s.err, !.discards = 1]]
            /\ pc' = [pc EXCEPT ![p] = "done"]
            /\ lock' = lock
       ELSE /\ cursors.Write + s.sizeBytes <= MaxCursor
            /\ lock = Free
            /\ lock' = p
            /\ frame' = [frame EXCEPT ![p] =
                    [IdleFrame EXCEPT !.op = "Put", !.digest = digest, !.b = kind,
                                      !.sizeBytes = s.sizeBytes, !.readers = 1]]
            /\ pc' = [pc EXCEPT ![p] = "put_alloc"]
    /\ UNCHANGED <<backendVars, cursors, offsetStore, dataStore, httpStore, puts>>

\* A Put that records the digest in the offset store as soon as the region
\* is allocated, before any byte is written; circularBlobAccess.Put records
\* it only after dataStore.Put.
PutAllocateRecording(p) ==
    /\ pc[p] = "put_alloc"
    /\ lock' = Free
    /\ \/ /\ cursors' = Allocate(cursors, frame[p].sizeBytes)
          /\ offsetStore' = OffsetStorePut(offsetStore, frame[p].digest,
                                           cursors.Write, frame[p].sizeBytes,
                                           cursors')
          /\ frame' = [frame EXCEPT ![p].offset = cursors.Write]
          /\ pc' = [pc EXCEPT ![p] = "put_write"]
       \/ /\ cursors' = cursors
          /\ offsetStore' = offsetStore
          /\ frame' = [frame EXCEPT ![p].err = "AllocateError", ![p].closes = 1]
          /\ pc' = [pc EXCEPT ![p] = "done"]
    /\ UNCHANGED <<backendVars, dataStore, httpStore, puts>>

\* A Put that keeps the lock after a successful Allocate, through
\* dataStore.Put.
PutAllocateKeepingLock(p) ==
    /\ pc[p] = "put_alloc"
    /\ \/ /\ cursors' = Allocate(cursors, frame[p].sizeBytes)
          /\ lock' = lock
          /\ frame' = [frame EXCEPT ![p].offset = cursors.Write]
          /\ pc' = [pc EXCEPT ![p] = "put_write"]
       \/ /\ cursors' = cursors
          /\ lock' = Free
          /\ frame' = [frame EXCEPT ![p].err = "AllocateError", ![p].closes = 1]
          /\ pc' = [pc EXCEPT ![p] = "done"]
    /\ UNCHANGED <<backendVars, offsetStore, dataStore, httpStore, puts>>

\* offset, err := ba.stateStore.Allocate(sizeBytes); ba.lock.Unlock();
\* on error return it (the deferred r.Close() runs).
PutAllocate(p) ==
    /\ pc[p] = "put_alloc"
    /\ lock' = Free
    /\ \/ /\ cursors' = Allocate(cursors, frame[p].sizeBytes)
          /\ frame' = [frame EXCEPT ![p].offset = cursors.Write]
          /\ pc' = [pc EXCEPT ![p] = "put_write"]
       \/ /\ cursors' = cursors
          /\ frame' = [frame EXCEPT ![p].err = "AllocateError", ![p].closes = 1]
          /\ pc' = [pc EXCEPT ![p] = "done"]
    /\ UNCHANGED <<backendVars, offsetStore, dataStore, httpStore, puts>>

\* A Put that gives its region back when dataStore.Put fails, by moving the
\* write cursor back to the offset it was allocated; circularBlobAccess.Put
\* leaves the cursors alone.
PutWriteRollingBack(p) ==
    /\ pc[p] = "put_write"
    /\ LET f == frame[p]
           k == Len(f.data)
           bytes == BufferBytes(f.b, f.digest)
       IN \/ /\ k < f.sizeBytes
             /\ dataStore' = DataStorePutByte(dataStore, f.offset, k, bytes[k + 1])
             /\ cursors' = cursors
             /\ IF k + 1 < f.sizeBytes
                THEN /\ frame' = [frame EXCEPT ![p].data = Append(f.data, bytes[k + 1])]
                     /\ pc' = pc
                ELSE IF f.b = "corrupt"
                THEN /\ frame' = [frame EXCEPT ![p].data = <<>>, ![p].offset = 0,
                                               ![p].err = "DataCorrupted",
                                               ![p].closes = 1]
                     /\ pc' = [pc EXCEPT ![p] = "done"]
                ELSE /\ frame' = [frame EXCEPT ![p].data = Append(f.data, bytes[k + 1])]
                     /\ pc' = [pc EXCEPT ![p] = "put_relock"]
          \/ /\ k < f.sizeBytes
             /\ dataStore' = dataStore
             /\ cursors' = [cursors EXCEPT !.Write = f.offset]
             /\ frame' = [frame EXCEPT ![p].data = <<>>, ![p].offset = 0,
                                       ![p].err = "DataStoreError", ![p].closes = 1]
             /\ pc' = [pc EXCEPT ![p] = "done"]
    /\ UNCHANGED <<backendVars, lock, offsetStore, httpStore, puts>>

\* ba.dataStore.Put(r, offset), one byte at a time, without the lock.  The
\* write may fail at any byte; a corrupt buffer's reader fails at its end.
PutWrite(p) ==
    /\ pc[p] = "put_write"
    /\ LET f == frame[p]
           k == Len(f.data)
           bytes == BufferBytes(f.b, f.digest)
       IN \/ /\ k < f.sizeBytes
             /\ dataStore' = DataStorePutByte(dataStore, f.offset, k, bytes[k + 1])
             /\ IF k + 1 < f.sizeBytes
                THEN /\ frame' = [frame EXCEPT ![p].data = Append(f.data, bytes[k + 1])]
                     /\ pc' = pc
                ELSE IF f.b = "corrupt"
                THEN /\ frame' = [frame EXCEPT ![p].data = <<>>, ![p].offset = 0,
                                               ![p].err = "DataCorrupted",
                                               ![p].closes = 1]
                     /\ pc' = [pc EXCEPT ![p] = "done"]
                ELSE /\ frame' = [frame EXCEPT ![p].data = Append(f.data, bytes[k + 1])]
                     /\ pc' = [pc EXCEPT ![p] = "put_relock"]
          \/ /\ k < f.sizeBytes
             /\ dataStore' = dataStore
             /\ frame' = [frame EXCEPT ![p].data = <<>>, ![p].offset = 0,
                                       ![p].err = "DataStoreError", ![p].closes = 1]
             /\ pc' = [pc EXCEPT ![p] = "done"]
    /\ UNCHANGED <<backendVars, lock, cursors, offsetStore, httpStore, puts>>

\* ba.lock.Lock() after the write.
PutRelock(p) ==
    /\ pc[p] = "put_relock"
    /\ lock = Free
    /\ lock' = p
    /\ pc' = [pc EXCEPT ![p] = "put_recheck"]
    /\ UNCHANGED <<backendVars, cursors, offsetStore, dataStore, frame, httpStore, puts>>

\* A Put that records the digest after the write without re-checking that
\* its region is still inside the cursors.
PutRecheckUnconditional(p) ==
    /\ pc[p] = "put_recheck"
    /\ lock' = Free
    /\ LET f == frame[p] IN
       \/ /\ offsetStore' = OffsetStorePut(offsetStore, f.digest, f.offset,
                                           f.sizeBytes, cursors)
          /\ puts' = [puts EXCEPT ![f.digest] = Bump(@)]
          /\ frame' = [frame EXCEPT ![p].data = <<>>, ![p].offset = 0,
                                    ![p].inserted = TRUE, ![p].closes = 1]
       \/ /\ offsetStore' = offsetStore
          /\ puts' = puts
          /\ frame' = [frame EXCEPT ![p].data = <<>>, ![p].offset = 0,
                                    ![p].err = "OffsetStoreError",
                                    ![p].closes = 1]
    /\ pc' = [pc EXCEPT ![p] = "done"]
    /\ UNCHANGED <<backendVars, cursors, dataStore, httpStore>>

\* A Put that records the digest although its region became stale, and
\* still returns the error.
PutRecheckRecordingStale(p) ==
    /\ pc[p] = "put_recheck"
    /\ lock' = Free
    /\ LET f == frame[p] IN
       IF Contains(cursors, f.offset, f.sizeBytes)
       THEN \/ /\ offsetStore' = OffsetStorePut(offsetStore, f.digest, f.offset,
                                                f.sizeBytes, cursors)
               /\ puts' = [puts EXCEPT ![f.digest] = Bump(@)]
               /\ frame' = [frame EXCEPT ![p].data = <<>>, ![p].offset = 0,
                                         ![p].inserted = TRUE, ![p].closes = 1]
            \/ /\ offsetStore' = offsetStore
               /\ puts' = puts
               /\ frame' = [frame EXCEPT ![p].data = <<>>, ![p].offset = 0,
                                         ![p].err = "OffsetStoreError",
                                         ![p].closes = 1]
       ELSE /\ offsetStore' = OffsetStorePut(offsetStore, f.digest, f.offset,
                                             f.sizeBytes, cursors)
            /\ puts' = puts
            /\ frame' = [frame EXCEPT ![p].data = <<>>, ![p].offset = 0,
                                      ![p].err = Stale, ![p].closes = 1]
    /\ pc' = [pc EXCEPT ![p] = "done"]
    /\ UNCHANGED <<backendVars, cursors, dataStore, httpStore>>

\* cursors := GetCursors(); if cursors.Contains(offset, sizeBytes) then
\* offsetStore.Put(...) else "Data became stale before write completed";
\* ba.lock.Unlock(); return err (the deferred r.Close() runs).
PutRecheck(p) ==
    /\ pc[p] = "put_recheck"
    /\ lock' = Free
    /\ LET f == frame[p] IN
       IF Contains(cursors, f.offset, f.sizeBytes)
       THEN \/ /\ offsetStore' = OffsetStorePut(offsetStore, f.digest, f.offset,
                                                f.sizeBytes, cursors)
               /\ puts' = [puts EXCEPT ![f.digest] = Bump(@)]
               /\ frame' = [frame EXCEPT ![p].data = <<>>, ![p].offset = 0,
                                         ![p].inserted = TRUE, ![p].closes = 1]
            \/ /\ offsetStore' = offsetStore
               /\ puts' = puts
               /\ frame' = [frame EXCEPT ![p].data = <<>>, ![p].offset = 0,
                                         ![p].err = "OffsetStoreError",
                                         ![p].closes = 1]
       ELSE /\ offsetStore' = offsetStore
            /\ puts' = puts
            /\ frame' = [frame EXCEPT ![p].data = <<>>, ![p].offset = 0,
                                      ![p].err = Stale, ![p].closes = 1]
    /\ pc' = [pc EXCEPT ![p] = "done"]
    /\ UNCHANGED <<backendVars, cursors, dataStore, httpStore>>

----------------------------------------------------------------------------
(* circularBlobAccess.Get and the buffer it returns                        *)

\* Get is called and ba.lock.Lock() is granted.
GetCall(p, digest) ==
    /\ pc[p] = "idle"
    /\ lock = Free
    /\ lock' = p
    /\ frame' = [frame EXCEPT ![p] = [IdleFrame EXCEPT !.op = "Get", !.digest = digest]]
    /\ pc' = [pc EXCEPT ![p] = "get_cursors"]
    /\ UNCHANGED <<backendVars, cursors, offsetStore, dataStore, httpStore, puts>>

\* cursors := ba.stateStore.GetCursors()
GetCursors(p) ==
    /\ pc[p] = "get_cursors"
    /\ frame' = [frame EXCEPT ![p].cursors = cursors]
    /\ pc' = [pc EXCEPT ![p] = "get_lookup"]
    /\ UNCHANGED <<backendVars, circularVars, httpStore, puts>>

\* A Get with the test on ok inverted: a digest the lookup does not find
\* gets a buffer over the start of the data file, a digest it finds gets
\* NotFound.
GetLookupInverted(p) ==
    /\ pc[p] = "get_lookup"
    /\ lock' = Free
    /\ LET f == frame[p]
           r == OffsetStoreGet(offsetStore, f.digest, f.cursors)
       IN \/ /\ ~r.ok
             /\ frame' = [frame EXCEPT ![p].ok = TRUE, ![p].offset = r.offset,
                                       ![p].length = f.digest.sizeBytes,
                                       ![p].cursors = NoCursors]
             /\ pc' = [pc EXCEPT ![p] = "get_read"]
          \/ /\ r.ok
             /\ frame' = [frame EXCEPT ![p].err = "NotFound", ![p].cursors = NoCursors]
             /\ pc' = [pc EXCEPT ![p] = "done"]
          \/ /\ frame' = [frame EXCEPT ![p].err = "OffsetStoreError",
                                       ![p].cursors = NoCursors]
             /\ pc' = [pc EXCEPT ![p] = "done"]
    /\ UNCHANGED <<backendVars, cursors, offsetStore, dataStore, httpStore, puts>>

\* A Get whose lookup ignores the cursors: any entry of the offset store
\* counts as found, also one whose region has been evicted.
GetLookupIgnoringCursors(p) ==
    /\ pc[p] = "get_lookup"
    /\ lock' = Free
    /\ LET f == frame[p]
           e == offsetStore[f.digest]
       IN \/ /\ e # NoEntry
             /\ frame' = [frame EXCEPT ![p].ok = TRUE, ![p].offset = e.offset,
                                       ![p].length = e.length,
                                       ![p].cursors = NoCursors]
             /\ pc' = [pc EXCEPT ![p] = "get_read"]
          \/ /\ e = NoEntry
             /\ frame' = [frame EXCEPT ![p].err = "NotFound", ![p].cursors = NoCursors]
             /\ pc' = [pc EXCEPT ![p] = "done"]
          \/ /\ frame' = [frame EXCEPT ![p].err = "OffsetStoreError",
                                       ![p].cursors = NoCursors]
             /\ pc' = [pc EXCEPT ![p] = "done"]
    /\ UNCHANGED <<backendVars, cursors, offsetStore, dataStore, httpStore, puts>>

\* A Get that returns the error of the offset store without releasing the
\* lock.
GetLookupLeakingLock(p) ==
    /\ pc[p] = "get_lookup"
    /\ LET f == frame[p]
           r == OffsetStoreGet(offsetStore, f.digest, f.cursors)
       IN \/ /\ r.ok
             /\ lock' = Free
             /\ frame' = [frame EXCEPT ![p].ok = TRUE, ![p].offset = r.offset,
                                       ![p].length = r.length,
                                       ![p].cursors = NoCursors]
             /\ pc' = [pc EXCEPT ![p] = "get_read"]
          \/ /\ ~r.ok
             /\ lock' = Free
             /\ frame' = [frame EXCEPT ![p].err = "NotFound", ![p].cursors = NoCursors]
             /\ pc' = [pc EXCEPT ![p] = "done"]
          \/ /\ lock' = lock
             /\ frame' = [frame EXCEPT ![p].err = "OffsetStoreError",
                                       ![p].cursors = NoCursors]
             /\ pc' = [pc EXCEPT ![p] = "done"]
    /\ UNCHANGED <<backendVars, cursors, offsetStore, dataStore, httpStore, puts>>

\* offset, length, ok, err := ba.offsetStore.Get(digest, cursors);
\* ba.lock.Unlock(); then an error buffer, a buffer over
\* dataStore.Get(offset, length), or a NotFound buffer.
GetLookup(p) ==
    /\ pc[p] = "get_lookup"
    /\ lock' = Free
    /\ LET f == frame[p]
           r == OffsetStoreGet(offsetStore, f.digest, f.cursors)
       IN \/ /\ r.ok
             /\ frame' = [frame EXCEPT ![p].ok = TRUE, ![p].offset = r.offset,
                                       ![p].length = r.length,
                                       ![p].cursors = NoCursors]
             /\ pc' = [pc EXCEPT ![p] = "get_read"]
          \/ /\ ~r.ok
             /\ frame' = [frame EXCEPT ![p].err = "NotFound", ![p].cursors = NoCursors]
             /\ pc' = [pc EXCEPT ![p] = "done"]
          \/ /\ frame' = [frame EXCEPT ![p].err = "OffsetStoreError",
                                       ![p].cursors = NoCursors]
             /\ pc' = [pc EXCEPT ![p] = "done"]
    /\ UNCHANGED <<backendVars, cursors, offsetStore, dataStore, httpStore, puts>>

\* The consumer reads the buffer: bytes come from dataStore.Get(offset,
\* length) one at a time, without the lock.  At the end the CAS buffer
\* checks them against the digest: on a mismatch it runs the repair
\* callback and fails with DataCorrupted.
BufferRead(p) ==
    /\ pc[p] = "get_read"
    /\ LET f == frame[p]
           k == Len(f.data)
           bytes == Append(f.data, DataStoreGetByte(dataStore, f.offset, k))
       IN /\ k < f.length
          /\ IF k + 1 < f.length
             THEN /\ frame' = [frame EXCEPT ![p].data = bytes]
                  /\ pc' = pc
             ELSE IF Verifies(f.digest, bytes)
             THEN /\ frame' = [frame EXCEPT ![p].data = bytes]
                  /\ pc' = [pc EXCEPT ![p] = "done"]
             ELSE /\ frame' = [frame EXCEPT ![p].data = bytes,
                                            ![p].err = "DataCorrupted"]
                  /\ pc' = [pc EXCEPT ![p] = "repair_lock"]
    /\ UNCHANGED <<backendVars, circularVars, httpStore, puts>>

\* A repair callback that calls Invalidate without taking the lock.
RepairWithoutLock(p) ==
    /\ pc[p] = "repair_lock"
    /\ pc' = [pc EXCEPT ![p] = "repair_invalidate"]
    /\ UNCHANGED <<backendVars, circularVars, frame, httpStore, puts>>

\* The repair callback: ba.lock.Lock()
RepairLock(p) ==
    /\ pc[p] = "repair_lock"
    /\ lock = Free
    /\ lock' = p
    /\ pc' = [pc EXCEPT ![p] = "repair_invalidate"]
    /\ UNCHANGED <<backendVars, cursors, offsetStore, dataStore, frame, httpStore, puts>>

\* A repair callback that invalidates an empty region at the offset, so
\* that the cursors keep the corrupted bytes live.
RepairInvalidateNothing(p) ==
    /\ pc[p] = "repair_invalidate"
    /\ lock' = Free
    /\ LET f == frame[p]
           called == [frame EXCEPT ![p].repairs = f.repairs + 1,
                                   ![p].invalidated =
                                       [offset |-> f.offset, length |-> 0]]
       IN \/ /\ cursors' = Invalidate(cursors, f.offset, 0)
             /\ frame' = [called EXCEPT ![p].repaired = TRUE]
          \/ /\ cursors' = cursors
             /\ frame' = called
    /\ pc' = [pc EXCEPT ![p] = "done"]
    /\ UNCHANGED <<backendVars, offsetStore, dataStore, httpStore, puts>>

\* The repair callback: ba.stateStore.Invalidate(offset, length), which
\* may fail; the deferred ba.lock.Unlock() runs.  frame.invalidated keeps
\* the arguments of the call, frame.repaired whether it succeeded.
RepairInvalidate(p) ==
    /\ pc[p] = "repair_invalidate"
    /\ lock' = Free
    /\ LET f == frame[p]
           called == [frame EXCEPT ![p].repairs = f.repairs + 1,
                                   ![p].invalidated =
                                       [offset |-> f.offset, length |-> f.length]]
       IN \/ /\ cursors' = Invalidate(cursors, f.offset, f.length)
             /\ frame' = [called EXCEPT ![p].repaired = TRUE]
          \/ /\ cursors' = cursors
             /\ frame' = called
    /\ pc' = [pc EXCEPT ![p] = "done"]
    /\ UNCHANGED <<backendVars, offsetStore, dataStore, httpStore, puts>>

----------------------------------------------------------------------------
(* circularBlobAccess.FindMissing                                          *)

\* The lists of digests FindMissing is called with.
DigestLists ==
    { l \in { <<d, e>> : d \in Digests, e \in Digests } : l[1] # l[2] }

\* FindMissing is called and ba.lock.Lock() is granted, with
\* ba.lock.Unlock() deferred.
FindMissingCall(p, digests) ==
    /\ pc[p] = "idle"
    /\ lock = Free
    /\ lock' = p
    /\ frame' = [frame EXCEPT ![p] =
            [IdleFrame EXCEPT !.op = "FindMissing", !.digests = digests]]
    /\ pc' = [pc EXCEPT ![p] = "fm_cursors"]
    /\ UNCHANGED <<backendVars, cursors, offsetStore, dataStore, httpStore, puts>>

\* A FindMissing that releases the lock once it has the cursors, as Get
\* does, instead of holding it until it returns.
FindMissingCursorsUnlocking(p) ==
    /\ pc[p] = "fm_cursors"
    /\ lock' = Free
    /\ frame' = [frame EXCEPT ![p].cursors = cursors]
    /\ pc' = [pc EXCEPT ![p] = "fm_loop"]
    /\ UNCHANGED <<backendVars, cursors, offsetStore, dataStore, httpStore, puts>>

\* cursors := ba.stateStore.GetCursors()
FindMissingCursors(p) ==
    /\ pc[p] = "fm_cursors"
    /\ frame' = [frame EXCEPT ![p].cursors = cursors]
    /\ pc' = [pc EXCEPT ![p] = "fm_loop"]
    /\ UNCHANGED <<backendVars, circularVars, httpStore, puts>>

\* One iteration of the loop over digests (the remaining ones are
\* frame.digests from position Len(data)+1 on; data counts the iterations),
\* or the return after the last one, which releases the lock.
FindMissingLoop(p) ==
    /\ pc[p] = "fm_loop"
    /\ LET f == frame[p]
           i == f.length + 1
       IN IF i <= Len(f.digests)
          THEN LET r == OffsetStoreGet(offsetStore, f.digests[i], f.cursors) IN
               \/ /\ frame' = [frame EXCEPT
                        ![p].length = i,
                        ![p].missingDigests =
                            IF r.ok THEN @ ELSE Append(@, f.digests[i])]
                  /\ pc' = pc
                  /\ lock' = lock
               \/ /\ frame' = [frame EXCEPT ![p].err = "OffsetStoreError",
                                            ![p].missingDigests = <<>>,
                                            ![p].length = 0,
                                            ![p].cursors = NoCursors]
                  /\ pc' = [pc EXCEPT ![p] = "done"]
                  /\ lock' = Free
          ELSE /\ frame' = [frame EXCEPT ![p].length = 0, ![p].cursors = NoCursors]
               /\ pc' = [pc EXCEPT ![p] = "done"]
               /\ lock' = Free
    /\ UNCHANGED <<backendVars, cursors, offsetStore, dataStore, httpStore, puts>>

----------------------------------------------------------------------------
(* remoteBlobAccess.Put                                                    *)

\* A remote Put that returns without closing the reader when the request
\* cannot be built.
RemotePutCallLeakingReader(p, digest, kind) ==
    /\ pc[p] = "idle"
    /\ LET s == GetSizeBytes(kind, digest) IN
       IF s.err # "nil"
       THEN /\ frame' = [frame EXCEPT ![p] =
                    [IdleFrame EXCEPT !.op = "RemotePut", !.digest = digest, !.b = kind,
                                      !.err = s.err, !.discards = 1]]
            /\ pc' = [pc EXCEPT ![p] = "done"]
       ELSE \/ /\ frame' = [frame EXCEPT ![p] =
                    [IdleFrame EXCEPT !.op = "RemotePut", !.digest = digest, !.b = kind,
                                      !.sizeBytes = s.sizeBytes, !.readers = 1]]
               /\ pc' = [pc EXCEPT ![p] = "rput_do"]
            \/ /\ frame' = [frame EXCEPT ![p] =
                    [IdleFrame EXCEPT !.op = "RemotePut", !.digest = digest, !.b = kind,
                                      !.sizeBytes = s.sizeBytes, !.readers = 1,
                                      !.err = "RequestError"]]
               /\ pc' = [pc EXCEPT ![p] = "done"]
    /\ UNCHANGED <<backendVars, circularVars, httpStore, puts>>

\* Put is called: b.GetSizeBytes(); on failure b.Discard() and return;
\* otherwise the URL is formatted, r := b.ToReader() and
\* http.NewRequest(PUT, url, r): if the request cannot be built r.Close()
\* and return, else req.ContentLength = sizeBytes.
RemotePutCall(p, digest, kind) ==
    /\ pc[p] = "idle"
    /\ LET s == GetSizeBytes(kind, digest) IN
       IF s.err # "nil"
       THEN /\ frame' = [frame EXCEPT ![p] =
                    [IdleFrame EXCEPT !.op = "RemotePut", !.digest = digest, !.b = kind,
                                      !.err = s.err, !.discards = 1]]
            /\ pc' = [pc EXCEPT ![p] = "done"]
       ELSE \/ /\ frame' = [frame EXCEPT ![p] =
                    [IdleFrame EXCEPT !.op = "RemotePut", !.digest = digest, !.b = kind,
                                      !.sizeBytes = s.sizeBytes, !.readers = 1]]
               /\ pc' = [pc EXCEPT ![p] = "rput_do"]
            \/ /\ frame' = [frame EXCEPT ![p] =
                    [IdleFrame EXCEPT !.op = "RemotePut", !.digest = digest, !.b = kind,
                                      !.sizeBytes = s.sizeBytes, !.readers = 1,
                                      !.closes = 1, !.err = "RequestError"]]
               /\ pc' = [pc EXCEPT ![p] = "done"]
    /\ UNCHANGED <<backendVars, circularVars, httpStore, puts>>

\* _, err = ctxhttp.Do(ctx, http.DefaultClient, req); return err.  The
\* transport closes the request body whatever happens.  The exchange fails
\* (also when the body's reader fails), or the server answers: with 200
\* after storing the body under the hash, or with another status, storing
\* nothing.  Only a failed exchange gives Put an error.
RemotePutDo(p) ==
    /\ pc[p] = "rput_do"
    /\ LET f == frame[p]
           body == BufferBytes(f.b, f.digest)
           stored == [httpStore EXCEPT ![f.digest.hash] = body]
       IN \/ /\ f.b # "corrupt"
             /\ httpStore' = stored
             /\ frame' = [frame EXCEPT ![p].closes = 1, ![p].status = 200]
          \/ /\ f.b # "corrupt"
             /\ httpStore' = httpStore
             /\ frame' = [frame EXCEPT ![p].closes = 1, ![p].status = 500]
          \/ /\ f.b = "corrupt"
             /\ httpStore' \in {httpStore, stored}
             /\ frame' = [frame EXCEPT ![p].closes = 1, ![p].err = "DataCorrupted"]
          \/ /\ httpStore' = httpStore
             /\ frame' = [frame EXCEPT ![p].closes = 1, ![p].err = "TransportError"]
    /\ pc' = [pc EXCEPT ![p] = "done"]
    /\ UNCHANGED <<backendVars, circularVars, puts>>

----------------------------------------------------------------------------
(* remoteBlobAccess.Get and remoteBlobAccess.FindMissing                   *)

\* The status codes with which the remote cache answers a GET or HEAD of
\* the URL of a hash: 200 when it holds a body under it, 404 when it holds
\* none, and 500 whenever it is in trouble.
ServerStatuses(h) == { IF httpStore[h] = NoBody THEN 404 ELSE 200, 500 }

\* convertHTTPUnexpectedStatus(resp)
UnexpectedStatus == "Unexpected status code from remote cache"

\* Get is called: the URL is formatted from address, prefix and
\* digest.GetHashString().
RemoteGetCall(p, digest) ==
    /\ pc[p] = "idle"
    /\ frame' = [frame EXCEPT ![p] =
            [IdleFrame EXCEPT !.op = "RemoteGet", !.digest = digest]]
    /\ pc' = [pc EXCEPT ![p] = "rget_do"]
    /\ UNCHANGED <<backendVars, circularVars, httpStore, puts>>

\* resp, err := ctxhttp.Get(ctx, http.DefaultClient, url) and the switch
\* on resp.StatusCode: a failed exchange gives a buffer of that error, 404
\* a buffer of NotFound, 200 a buffer over resp.Body, any other status a
\* buffer of convertHTTPUnexpectedStatus(resp).
RemoteGetDo(p) ==
    /\ pc[p] = "rget_do"
    /\ LET h == frame[p].digest.hash IN
       \/ frame' = [frame EXCEPT ![p].err = "TransportError"]
       \/ \E code \in ServerStatuses(h) :
              frame' = CASE code = 404 ->
                                [frame EXCEPT ![p].status = code,
                                              ![p].err = "NotFound"]
                         [] code = 200 ->
                                [frame EXCEPT ![p].status = code, ![p].ok = TRUE,
                                              ![p].data = httpStore[h]]
                         [] OTHER ->
                                [frame EXCEPT ![p].status = code,
                                              ![p].err = UnexpectedStatus]
    /\ pc' = [pc EXCEPT ![p] = "done"]
    /\ UNCHANGED <<backendVars, circularVars, httpStore, puts>>

\* FindMissing is called: var missing []*util.Digest.
RemoteFindMissingCall(p, digests) ==
    /\ pc[p] = "idle"
    /\ frame' = [frame EXCEPT ![p] =
            [IdleFrame EXCEPT !.op = "RemoteFindMissing", !.digests = digests]]
    /\ pc' = [pc EXCEPT ![p] = "rfm_loop"]
    /\ UNCHANGED <<backendVars, circularVars, httpStore, puts>>

\* A remote FindMissing that takes a digest whose probe was answered with
\* an unexpected status for a present one.
RemoteFindMissingLoopLenient(p) ==
    /\ pc[p] = "rfm_loop"
    /\ LET f == frame[p]
           i == Len(f.probes) + 1
       IN IF i <= Len(f.digests)
          THEN \/ /\ frame' = [frame EXCEPT ![p].probes = Append(@, 0),
                                            ![p].err = "TransportError",
                                            ![p].missingDigests = <<>>]
                  /\ pc' = [pc EXCEPT ![p] = "done"]
               \/ \E code \in ServerStatuses(f.digests[i].hash) :
                      /\ frame' = [frame EXCEPT
                             ![p].probes = Append(@, code),
                             ![p].missingDigests =
                                 IF code = 404 THEN Append(@, f.digests[i]) ELSE @]
                      /\ pc' = pc
          ELSE /\ frame' = frame
               /\ pc' = [pc EXCEPT ![p] = "done"]
    /\ UNCHANGED <<backendVars, circularVars, httpStore, puts>>

\* One iteration of the loop over digests, or the return after the last
\* one.  frame.probes holds the status codes of the HEAD probes made so
\* far, 0 for an exchange that failed.  resp, err := ctxhttp.Head(ctx,
\* http.DefaultClient, url): a failed exchange returns nil, err; 404
\* appends the digest to missing; 200 continues; any other status returns
\* nil, convertHTTPUnexpectedStatus(resp).
RemoteFindMissingLoop(p) ==
    /\ pc[p] = "rfm_loop"
    /\ LET f == frame[p]
           i == Len(f.probes) + 1
       IN IF i <= Len(f.digests)
          THEN \/ /\ frame' = [frame EXCEPT ![p].probes = Append(@, 0),
                                            ![p].err = "TransportError",
                                            ![p].missingDigests = <<>>]
                  /\ pc' = [pc EXCEPT ![p] = "done"]
               \/ \E code \in ServerStatuses(f.digests[i].hash) :
                      IF code \in {200, 404}
                      THEN /\ frame' = [frame EXCEPT
                                  ![p].probes = Append(@, code),
                                  ![p].missingDigests =
                                      IF code = 404 THEN Append(@, f.digests[i]) ELSE @]
                           /\ pc' = pc
                      ELSE /\ frame' = [frame EXCEPT
                                  ![p].probes = Append(@, code),
                                  ![p].err = UnexpectedStatus,
                                  ![p].missingDigests = <<>>]
                           /\ pc' = [pc EXCEPT ![p] = "done"]
          ELSE /\ frame' = frame
               /\ pc' = [pc EXCEPT ![p] = "done"]
    /\ UNCHANGED <<backendVars, circularVars, httpStore, puts>>

----------------------------------------------------------------------------
(* blobAccessContentAddressableStorage.PutFile                             *)

\* Bound on the appends of other writers to a file that PutFile has open.
MaxAppends == 2

\* The bytes of files, and the files PutFile is called on.
FileBytes == {1, 2}

Files ==
    { <<>> } \cup { <<a>> : a \in FileBytes }
             \cup { <<a, b>> : a \in FileBytes, b \in FileBytes }

\* PutFile is called: file, err := directory.OpenRead(name), which fails
\* or opens a file of some contents; then
\* digestGenerator := parentDigest.NewDigestGenerator().
PutFileCall(p, contents) ==
    /\ pc[p] = "idle"
    /\ \/ /\ frame' = [frame EXCEPT ![p] =
                 [IdleFrame EXCEPT !.op = "PutFile", !.err = "OpenError"]]
          /\ pc' = [pc EXCEPT ![p] = "done"]
       \/ /\ frame' = [frame EXCEPT ![p] =
                 [IdleFrame EXCEPT !.op = "PutFile", !.pf.file = contents]]
          /\ pc' = [pc EXCEPT ![p] = "pf_copy"]
    /\ UNCHANGED <<backendVars, circularVars, httpStore, puts>>

\* Another writer appends a byte to the file while PutFile has it open.
FileAppend(p, byte) ==
    /\ pc[p] \in {"pf_copy", "pf_put"}
    /\ frame[p].pf.appends < MaxAppends
    /\ frame' = [frame EXCEPT ![p].pf.file = Append(@, byte),
                              ![p].pf.appends = @ + 1]
    /\ UNCHANGED <<backendVars, circularVars, pc, httpStore, puts>>

\* sizeBytes, err := io.Copy(digestGenerator, io.NewSectionReader(file, 0,
\* math.MaxInt64)), one read at a time: a read returns the next byte of
\* the file, which goes to the digest generator; or it fails, and PutFile
\* closes the file and returns the error; or it finds the end of the file,
\* io.Copy returns the number of bytes copied and digest :=
\* digestGenerator.Sum(), and cas.blobAccess.Put is called with a CAS
\* buffer over newSectionReadCloser(file, 0, sizeBytes).
PutFileCopy(p) ==
    /\ pc[p] = "pf_copy"
    /\ LET f == frame[p].pf
           n == Len(f.hashed)
       IN \/ /\ n < Len(f.file)
             /\ frame' = [frame EXCEPT ![p].pf.hashed = Append(@, f.file[n + 1])]
             /\ pc' = pc
          \/ /\ frame' = [frame EXCEPT ![p].pf.closed = TRUE, ![p].err = "ReadError"]
             /\ pc' = [pc EXCEPT ![p] = "done"]
          \/ /\ n = Len(f.file)
             /\ frame' = [frame EXCEPT ![p].pf.sizeBytes = n,
                                       ![p].pf.digest = NewDigest(f.hashed),
                                       ![p].pf.put = "running"]
             /\ pc' = [pc EXCEPT ![p] = "pf_put"]
    /\ UNCHANGED <<backendVars, circularVars, httpStore, puts>>

\* A PutFile whose buffer reads the file to its end, not to sizeBytes.
PutFileUploadToEndOfFile(p) ==
    /\ pc[p] = "pf_put"
    /\ frame[p].pf.put = "running"
    /\ LET f == frame[p].pf
           n == Len(f.uploaded)
       IN \/ /\ n < Len(f.file)
             /\ frame' = [frame EXCEPT ![p].pf.uploaded = Append(@, f.file[n + 1])]
          \/ /\ n = Len(f.file)
             /\ frame' = [frame EXCEPT
                    ![p].pf.closed = TRUE,
                    ![p].pf.put = IF Verifies(f.digest, f.uploaded)
                                  THEN "nil" ELSE "DataCorrupted"]
          \/ /\ frame' = [frame EXCEPT ![p].pf.closed = TRUE,
                                       ![p].pf.put = "BackendError"]
    /\ UNCHANGED <<backendVars, circularVars, pc, httpStore, puts>>

\* The backend's Put consumes the buffer, one read at a time.  A read of
\* the section reader returns the next byte of the file below sizeBytes;
\* at sizeBytes it returns io.EOF, the CAS buffer compares what it has
\* read with the digest and closes the file, and Put returns nil or
\* DataCorrupted.  The backend may also fail for reasons of its own and
\* discard the buffer, which closes the file.
PutFileUpload(p) ==
    /\ pc[p] = "pf_put"
    /\ frame[p].pf.put = "running"
    /\ LET f == frame[p].pf
           n == Len(f.uploaded)
       IN \/ /\ n < f.sizeBytes
             /\ frame' = [frame EXCEPT ![p].pf.uploaded = Append(@, f.file[n + 1])]
          \/ /\ n = f.sizeBytes
             /\ frame' = [frame EXCEPT
                    ![p].pf.closed = TRUE,
                    ![p].pf.put = IF Verifies(f.digest, f.uploaded)
                                  THEN "nil" ELSE "DataCorrupted"]
          \/ /\ frame' = [frame EXCEPT ![p].pf.closed = TRUE,
                                       ![p].pf.put = "BackendError"]
    /\ UNCHANGED <<backendVars, circularVars, pc, httpStore, puts>>

\* Put has returned: PutFile returns nil and the error, or the digest
\* (frame.digest) and nil.
PutFileReturn(p) ==
    /\ pc[p] = "pf_put"
    /\ frame[p].pf.put # "running"
    /\ frame' = [frame EXCEPT
           ![p].err = frame[p].pf.put,
           ![p].digest = IF frame[p].pf.put = "nil" THEN frame[p].pf.digest ELSE NoDigest,
           ![p].ok = (frame[p].pf.put = "nil")]
    /\ pc' = [pc EXCEPT ![p] = "done"]
    /\ UNCHANGED <<backendVars, circularVars, httpStore, puts>>

----------------------------------------------------------------------------
(* blobAccessContentAddressableStorage.GetFile                             *)

\* The entries the directory may hold under the name before the call.
Entries == { NoFile } \cup { [present |-> TRUE, contents |-> c] : c \in Files }

\* GetFile is called: w, err := directory.OpenAppend(name,
\* filesystem.CreateExcl(mode)).  Creation is exclusive: it fails when the
\* name exists, and may fail for other reasons; the error is returned.
\* Otherwise an empty file is created and w.Close() is deferred.
GetFileCall(p, digest, before) ==
    /\ pc[p] = "idle"
    /\ LET called == [IdleFrame EXCEPT !.op = "GetFile", !.digest = digest,
                                       !.gf.before = before, !.gf.entry = before]
       IN \/ /\ before.present
             /\ frame' = [frame EXCEPT ![p] = [called EXCEPT !.err = "FileExists"]]
             /\ pc' = [pc EXCEPT ![p] = "done"]
          \/ /\ ~before.present
             /\ frame' = [frame EXCEPT ![p] = [called EXCEPT !.err = "OpenError"]]
             /\ pc' = [pc EXCEPT ![p] = "done"]
          \/ /\ ~before.present
             /\ frame' = [frame EXCEPT ![p] =
                    [called EXCEPT !.gf.created = TRUE,
                                   !.gf.entry = [present |-> TRUE, contents |-> <<>>]]]
             /\ pc' = [pc EXCEPT ![p] = "gf_get"]
    /\ UNCHANGED <<backendVars, circularVars, httpStore, puts>>

\* cas.blobAccess.Get(ctx, digest): the backend has the blob, has a
\* corrupted copy of it, or has none (frame.b is the buffer returned).
GetFileGet(p) ==
    /\ pc[p] = "gf_get"
    /\ \E kind \in {"valid", "corrupt", "error"} :
           frame' = [frame EXCEPT ![p].gf.gets = @ + 1, ![p].b = kind]
    /\ pc' = [pc EXCEPT ![p] = "gf_copy"]
    /\ UNCHANGED <<backendVars, circularVars, httpStore, puts>>

\* .IntoWriter(w), one write at a time.  A buffer of an error fails with
\* NotFound at once.  Otherwise the next byte of the buffer is appended to
\* the file, or the write fails; at the end of the data a CAS buffer that
\* read wrong bytes fails with DataCorrupted, and a valid one returns nil:
\* GetFile returns nil and w.Close() runs.
GetFileIntoWriter(p) ==
    /\ pc[p] = "gf_copy"
    /\ LET f == frame[p]
           bytes == BufferBytes(f.b, f.digest)
           n == Len(f.gf.entry.contents)
           Fail(err) == /\ frame' = [frame EXCEPT ![p].err = err]
                        /\ pc' = [pc EXCEPT ![p] = "gf_remove"]
       IN \/ /\ f.b = "error"
             /\ Fail("NotFound")
          \/ /\ f.b # "error" /\ n < Len(bytes)
             /\ frame' = [frame EXCEPT ![p].gf.entry.contents = Append(@, bytes[n + 1])]
             /\ pc' = pc
          \/ /\ f.b # "error"
             /\ Fail("WriteError")
          \/ /\ f.b = "corrupt" /\ n = Len(bytes)
             /\ Fail("DataCorrupted")
          \/ /\ f.b = "valid" /\ n = Len(bytes)
             /\ frame' = [frame EXCEPT ![p].gf.closed = TRUE, ![p].ok = TRUE]
             /\ pc' = [pc EXCEPT ![p] = "done"]
    /\ UNCHANGED <<backendVars, circularVars, httpStore, puts>>

\* A GetFile that returns the error of the copy and leaves the file.
GetFileReturnKeeping(p) ==
    /\ pc[p] = "gf_remove"
    /\ frame' = [frame EXCEPT ![p].gf.closed = TRUE]
    /\ pc' = [pc EXCEPT ![p] = "done"]
    /\ UNCHANGED <<backendVars, circularVars, httpStore, puts>>

\* The copy has failed: directory.Remove(name) takes the name out of the
\* directory, GetFile returns the error and w.Close() runs.
GetFileRemove(p) ==
    /\ pc[p] = "gf_remove"
    /\ frame' = [frame EXCEPT ![p].gf.entry = NoFile,
                              ![p].gf.removes = @ + 1,
                              ![p].gf.closed = TRUE]
    /\ pc' = [pc EXCEPT ![p] = "done"]
    /\ UNCHANGED <<backendVars, circularVars, httpStore, puts>>

----------------------------------------------------------------------------
(* Allocate of the local backend (spec.md, section 4.3).                   *)

\* Allocate(size) is called; allocations serialize on the allocator.  A
\* size above block_size_bytes is ResourceExhausted.  Otherwise a new
\* block is chosen (the weights of the choice decide how often each one is
\* taken, not which ones can be).
LocalAllocateCall(p, sizeBytes, index) ==
    /\ pc[p] = "idle"
    /\ \A q \in Procs : pc[q] # "la_try"
    /\ IF sizeBytes > BlockSizeBytes
       THEN /\ frame' = [frame EXCEPT ![p] =
                   [IdleFrame EXCEPT !.op = "Allocate", !.sizeBytes = sizeBytes,
                                     !.err = "ResourceExhausted"]]
            /\ pc' = [pc EXCEPT ![p] = "done"]
       ELSE /\ frame' = [frame EXCEPT ![p] =
                   [IdleFrame EXCEPT !.op = "Allocate", !.sizeBytes = sizeBytes,
                                     !.la.index = index]]
            /\ pc' = [pc EXCEPT ![p] = "la_try"]
    /\ UNCHANGED <<circularVars, httpStore, puts, backendVars>>

\* Within the chosen block, append at its write offset and return
\* (block_id, offset, epoch).
LocalAllocateAppend(p) ==
    /\ pc[p] = "la_try"
    /\ LET f == frame[p]
           block == blockList.new[f.la.index]
       IN /\ Fits(block, f.sizeBytes)
          /\ blockList' = [blockList EXCEPT
                 !.new[f.la.index].offset = @ + f.sizeBytes]
          /\ frame' = [frame EXCEPT ![p].la.blockId = block.id,
                                    ![p].la.offset = block.offset,
                                    ![p].la.epoch = block.epoch,
                                    ![p].ok = TRUE]
    /\ pc' = [pc EXCEPT ![p] = "done"]
    /\ UNCHANGED <<circularVars, httpStore, puts, mirror>>

\* If the block is full, rotate.
LocalRotate(p) ==
    /\ pc[p] = "la_try"
    /\ ~Fits(blockList.new[frame[p].la.index], frame[p].sizeBytes)
    /\ blockList.epoch < MaxEpoch
    /\ blockList' = Rotate(blockList)
    /\ frame' = [frame EXCEPT ![p].la.rotations = @ + 1]
    /\ UNCHANGED <<circularVars, pc, httpStore, puts, mirror>>

----------------------------------------------------------------------------
(* The mirrored backend (spec.md, section 4.5).                            *)

\* The members of a sequence.
Range(seq) == { seq[k] : k \in 1..Len(seq) }

\* Put: issue to both backends, each of which stores the blob or fails;
\* return success only when both succeed.  After a partial success the
\* failure is returned and nothing is compensated.
MirroredPut(p, digest) ==
    /\ pc[p] = "idle"
    /\ \E okA \in BOOLEAN, okB \in BOOLEAN :
           /\ mirror' = [A |-> IF okA THEN mirror.A \cup {digest} ELSE mirror.A,
                         B |-> IF okB THEN mirror.B \cup {digest} ELSE mirror.B]
           /\ frame' = [frame EXCEPT ![p] =
                  [IdleFrame EXCEPT !.op = "MirroredPut", !.digest = digest,
                                    !.err = IF okA /\ okB THEN "nil"
                                            ELSE "BackendError"]]
    /\ pc' = [pc EXCEPT ![p] = "done"]
    /\ UNCHANGED <<circularVars, httpStore, puts, blockList>>

\* FindMissing is called.
MirroredFindMissingCall(p, digests) ==
    /\ pc[p] = "idle"
    /\ frame' = [frame EXCEPT ![p] =
            [IdleFrame EXCEPT !.op = "MirroredFindMissing", !.digests = digests]]
    /\ pc' = [pc EXCEPT ![p] = "mfm_ask"]
    /\ UNCHANGED <<circularVars, httpStore, puts, backendVars>>

\* Compute missingA and missingB: each backend is asked once, in either
\* order, and reports the digests of the list it does not hold.
MirroredFindMissingAsk(p) ==
    /\ pc[p] = "mfm_ask"
    /\ LET f == frame[p]
           NotInA(d) == d \notin mirror.A
           NotInB(d) == d \notin mirror.B
       IN \/ /\ ~f.mf.askedA
             /\ frame' = [frame EXCEPT ![p].mf.askedA = TRUE,
                                       ![p].mf.missingA = SelectSeq(f.digests, NotInA)]
          \/ /\ ~f.mf.askedB
             /\ frame' = [frame EXCEPT ![p].mf.askedB = TRUE,
                                       ![p].mf.missingB = SelectSeq(f.digests, NotInB)]
    /\ pc' = [pc EXCEPT ![p] =
           IF frame'[p].mf.askedA /\ frame'[p].mf.askedB
           THEN "mfm_replicate" ELSE "mfm_ask"]
    /\ UNCHANGED <<circularVars, httpStore, puts, backendVars>>

\* A mirrored FindMissing that replicates from B to A only.
MirroredReplicateOneWay(p) ==
    /\ pc[p] = "mfm_replicate"
    /\ LET f == frame[p]
           toA == { d \in Range(f.mf.missingA) \ Range(f.mf.missingB) : d \notin mirror.A }
       IN IF toA # {}
          THEN /\ \E d \in toA : mirror' = [mirror EXCEPT !.A = @ \cup {d}]
               /\ UNCHANGED <<pc, frame>>
          ELSE /\ LET Both(d) == d \in Range(f.mf.missingA) /\ d \in Range(f.mf.missingB)
                  IN frame' = [frame EXCEPT ![p].missingDigests = SelectSeq(f.digests, Both)]
               /\ pc' = [pc EXCEPT ![p] = "done"]
               /\ mirror' = mirror
    /\ UNCHANGED <<circularVars, httpStore, puts, blockList>>

\* For the digests in missingA \ missingB replicate A <- B, and
\* symmetrically, one blob at a time; when none is left, the replication
\* is over and what FindMissing returns is missingA \cap missingB, in the
\* order of the list.
MirroredReplicate(p) ==
    /\ pc[p] = "mfm_replicate"
    /\ LET f == frame[p]
           toA == { d \in Range(f.mf.missingA) \ Range(f.mf.missingB) : d \notin mirror.A }
           toB == { d \in Range(f.mf.missingB) \ Range(f.mf.missingA) : d \notin mirror.B }
       IN IF toA \cup toB # {}
          THEN /\ \/ \E d \in toA : mirror' = [mirror EXCEPT !.A = @ \cup {d}]
                  \/ \E d \in toB : mirror' = [mirror EXCEPT !.B = @ \cup {d}]
               /\ UNCHANGED <<pc, frame>>
          ELSE /\ LET Both(d) == d \in Range(f.mf.missingA) /\ d \in Range(f.mf.missingB)
                  IN frame' = [frame EXCEPT ![p].missingDigests = SelectSeq(f.digests, Both)]
               /\ pc' = [pc EXCEPT ![p] = "done"]
               /\ mirror' = mirror
    /\ UNCHANGED <<circularVars, httpStore, puts, blockList>>

----------------------------------------------------------------------------
(* The sharding backend (spec.md, section 4.5; the shard list and          *)
(* hash_initialization are ShardingBlobAccessConfiguration).  Hashes are   *)
(* four bits wide.                                                         *)

\* Bound on the keys of digests.
MaxKey == 7

\* The values of hash_initialization.
Seeds == {0, 5}

\* A shard: drained (no backend) or not, and its non-zero weight.
Shard(drained, weight) == [drained |-> drained, weight |-> weight]

\* The shard lists of the backends: the weights are those of one of three
\* lists, any shards but all of them are drained.
WeightLists == { <<1, 1>>, <<1, 2, 1>>, <<2, 1, 3>> }

ShardLists ==
    { shards \in UNION { [1..Len(w) -> { Shard(d, w[k]) : d \in BOOLEAN, k \in 1..Len(w) }]
                         : w \in WeightLists } :
          /\ \E w \in WeightLists :
                 Len(w) = Len(shards) /\ \A k \in 1..Len(w) : shards[k].weight = w[k]
          /\ \E k \in 1..Len(shards) : ~shards[k].drained }

\* The seeded fingerprint of a digest.
Fingerprint(key, seed) == (11 * key + seed) % 16

\* The value drawn after x.
Mix(x) == (5 * x + 3) % 16

RECURSIVE CumulativeWeight(_, _)
\* The total weight of the first k shards, drained ones included.
CumulativeWeight(shards, k) ==
    IF k = 0 THEN 0 ELSE CumulativeWeight(shards, k - 1) + shards[k].weight

\* The shard whose cumulative weight window contains the slot.
ShardAt(shards, slot) ==
    CHOOSE k \in 1..Len(shards) :
        CumulativeWeight(shards, k - 1) <= slot /\ slot < CumulativeWeight(shards, k)

RECURSIVE PickAmongUndrained(_, _, _)
\* A selection whose windows are those of the undrained shards alone.
PickAmongUndrained(shards, x, attempts) ==
    LET Undrained(shard) == ~shard.drained
        live == SelectSeq(shards, Undrained)
        k == ShardAt(live, x % CumulativeWeight(live, Len(live)))
    IN CHOOSE i \in 1..Len(shards) :
           /\ ~shards[i].drained
           /\ Cardinality({ j \in 1..i : ~shards[j].drained }) = k

RECURSIVE Pick(_, _, _)
\* The selection: draw a value, take the shard whose window contains it if
\* that shard is not drained, else draw again.  attempts bounds the walk;
\* 0 is returned when it is used up.
Pick(shards, x, attempts) ==
    LET k == ShardAt(shards, x % CumulativeWeight(shards, Len(shards)))
    IN IF ~shards[k].drained THEN k
       ELSE IF attempts = 0 THEN 0
       ELSE Pick(shards, Mix(x), attempts - 1)

\* A request for a digest reaches the sharding backend, which routes it.
ShardingRoute(p, shards, seed, key) ==
    /\ pc[p] = "idle"
    /\ frame' = [frame EXCEPT ![p] =
            [IdleFrame EXCEPT !.op = "ShardingRoute",
                              !.sh = [shards |-> shards, seed |-> seed, key |-> key,
                                      shard |-> Pick(shards, Fingerprint(key, seed), 16)]]]
    /\ pc' = [pc EXCEPT ![p] = "done"]
    /\ UNCHANGED <<circularVars, httpStore, puts, backendVars>>

----------------------------------------------------------------------------
(* byteStreamServer.Write and byteStreamWriteServerChunkReader             *)

\* Bounds on the streams clients send.
MaxRequests == 3

MaxWriteOffset == 2

Chunks == { <<>>, <<1>>, <<2>> }

\* What stream.Recv() can return: a request, io.EOF once the client has
\* closed its side, or the error of a broken stream.
WriteRequests ==
    [kind : {"request"}, writeOffset : 0..MaxWriteOffset, data : Chunks,
     finishWrite : BOOLEAN]

RecvResults ==
    WriteRequests \cup
    { [kind |-> k, writeOffset |-> 0, data |-> <<>>, finishWrite |-> FALSE]
        : k \in {"EOF", "RecvError"} }

\* A chunk reader that takes the data of a request whatever its
\* write_offset is.
setRequestAnyOffset(w, request) ==
    IF w.finishedWrite
    THEN [err |-> ClosedTwice, w |-> w]
    ELSE [err |-> "nil",
          w |-> [w EXCEPT !.writeOffset = @ + Len(request.data),
                          !.data = request.data,
                          !.finishedWrite = request.finishWrite]]

\* r.setRequest(request) on the chunk reader w: the error and the reader
\* afterwards.
setRequest(w, request) ==
    IF w.finishedWrite
    THEN [err |-> ClosedTwice, w |-> w]
    ELSE IF request.writeOffset # w.writeOffset
    THEN [err |-> UnexpectedOffset, w |-> w]
    ELSE [err |-> "nil",
          w |-> [w EXCEPT !.writeOffset = @ + Len(request.data),
                          !.data = request.data,
                          !.finishedWrite = request.finishWrite]]

\* Write is called: stream.Recv(), parseResourceNameWrite and setRequest
\* on the first request; each failure is returned.  Otherwise
\* s.blobAccess.Put is called with a CAS buffer over the chunk reader.
WriteCall(p, recv, resourceName) ==
    /\ pc[p] = "idle"
    /\ LET w0 == [NoWrite EXCEPT !.resourceName = resourceName]
           w1 == [w0 EXCEPT !.received = <<recv>>]
           parsed == parseResourceNameWrite(resourceName)
           w2 == [w1 EXCEPT !.digest = parsed.digest]
           set == setRequest(w2, recv)
           Finish(w, err) ==
               /\ frame' = [frame EXCEPT ![p] =
                      [IdleFrame EXCEPT !.op = "Write", !.wr = w, !.err = err]]
               /\ pc' = [pc EXCEPT ![p] = "done"]
       IN IF recv.kind # "request"
          THEN Finish([NoWrite EXCEPT !.closed = (recv.kind = "EOF")], recv.kind)
          ELSE IF parsed.err # "nil"
          THEN Finish(w1, parsed.err)
          ELSE IF set.err # "nil"
          THEN Finish(w2, set.err)
          ELSE /\ frame' = [frame EXCEPT ![p] =
                      [IdleFrame EXCEPT !.op = "Write",
                                        !.wr = [set.w EXCEPT !.put = "running"]]]
               /\ pc' = [pc EXCEPT ![p] = "write_put"]
    /\ UNCHANGED <<backendVars, circularVars, httpStore, puts>>

\* byteStreamServer.Write is called on a stream whose first Recv() returns
\* recv, a first request carrying resourceName.
Write(p) ==
    /\ pc[p] = "idle"
    /\ \E recv \in RecvResults, resourceName \in ResourceNames :
           WriteCall(p, recv, resourceName)

\* The check of a CAS buffer at the end of the data: the bytes are those
\* the digest names.
VerifiesWrite(digest, bytes) ==
    Len(bytes) = digest.sizeBytes /\ HashString(bytes) = digest.hash

\* The backend's Put consumes the buffer: one call of the chunk reader's
\* Read().  Data left by setRequest is handed over; otherwise
\* stream.Recv() gives the next request, which setRequest checks.  An
\* error of Read() ends Put with that error; io.EOF after finish_write ends
\* the data: Put then succeeds if the bytes verify (or fails in the
\* backend) and fails with DataCorrupted if they do not.
ChunkReaderRead(p, recv) ==
    /\ pc[p] = "write_put"
    /\ LET w == frame[p].wr
           got == [w EXCEPT !.received = Append(@, recv)]
           set == setRequest(got, recv)
           Returned(w1, err) ==
               /\ frame' = [frame EXCEPT ![p].wr = [w1 EXCEPT !.put = err]]
               /\ pc' = [pc EXCEPT ![p] = "write_return"]
       IN IF Len(w.data) # 0
          THEN /\ recv.kind = "EOF"
               /\ frame' = [frame EXCEPT ![p].wr =
                      [w EXCEPT !.delivered = @ \o w.data, !.data = <<>>]]
               /\ pc' = pc
          ELSE CASE recv.kind = "RecvError" -> Returned(w, "RecvError")
                 [] recv.kind = "EOF" ->
                      LET c == [w EXCEPT !.closed = TRUE] IN
                      IF ~w.finishedWrite
                      THEN Returned(c, ClosedUnfinished)
                      ELSE IF VerifiesWrite(w.digest, w.delivered)
                      THEN \/ Returned(c, "nil")
                           \/ Returned(c, "BackendError")
                      ELSE Returned(c, "DataCorrupted")
                 [] OTHER ->
                      /\ Len(w.received) < MaxRequests
                      /\ IF set.err # "nil"
                         THEN Returned(got, set.err)
                         ELSE /\ frame' = [frame EXCEPT ![p].wr =
                                     [set.w EXCEPT !.delivered = @ \o set.w.data,
                                                   !.data = <<>>]]
                              /\ pc' = pc
    /\ UNCHANGED <<backendVars, circularVars, httpStore, puts>>

\* The backend's Put fails on its own before it has read all the data; a
\* CAS buffer that has seen more bytes than the digest names fails with
\* DataCorrupted.
BackendPutFails(p) ==
    /\ pc[p] = "write_put"
    /\ LET w == frame[p].wr IN
       \E err \in {"BackendError"} \cup
                  (IF Len(w.delivered) > w.digest.sizeBytes
                   THEN {"DataCorrupted"} ELSE {}) :
           frame' = [frame EXCEPT ![p].wr = [w EXCEPT !.put = err]]
    /\ pc' = [pc EXCEPT ![p] = "write_return"]
    /\ UNCHANGED <<backendVars, circularVars, httpStore, puts>>

\* A Write that sends its WriteResponse before it looks at the error of
\* Put.
WriteReturnRespondingFirst(p) ==
    /\ pc[p] = "write_return"
    /\ LET w == frame[p].wr IN
       \/ frame' = [frame EXCEPT ![p].wr.response = w.digest.sizeBytes,
                                 ![p].err = w.put]
       \/ frame' = [frame EXCEPT ![p].err = "SendError"]
    /\ pc' = [pc EXCEPT ![p] = "done"]
    /\ UNCHANGED <<backendVars, circularVars, httpStore, puts>>

\* Put has returned: its error is returned, or stream.SendAndClose sends
\* the WriteResponse with CommittedSize = digest.GetSizeBytes() and Write
\* returns what it returns.
WriteReturn(p) ==
    /\ pc[p] = "write_return"
    /\ LET w == frame[p].wr IN
       IF w.put # "nil"
       THEN frame' = [frame EXCEPT ![p].err = w.put]
       ELSE \/ frame' = [frame EXCEPT ![p].wr.response = w.digest.sizeBytes]
            \/ frame' = [frame EXCEPT ![p].err = "SendError"]
    /\ pc' = [pc EXCEPT ![p] = "done"]
    /\ UNCHANGED <<backendVars, circularVars, httpStore, puts>>

----------------------------------------------------------------------------
(* The caller takes the result of a finished operation.                    *)

Return(p) ==
    /\ pc[p] = "done"
    /\ pc' = [pc EXCEPT ![p] = "idle"]
    /\ frame' = [frame EXCEPT ![p] = IdleFrame]
    /\ UNCHANGED <<backendVars, circularVars, httpStore, puts>>

----------------------------------------------------------------------------

Next ==
    \E p \in Procs :
        \/ \E digest \in Digests, kind \in BufferKinds : PutCall(p, digest, kind)
        \/ PutAllocate(p)
        \/ PutWrite(p)
        \/ PutRelock(p)
        \/ PutRecheck(p)
        \/ \E digest \in Digests : GetCall(p, digest)
        \/ GetCursors(p)
        \/ GetLookup(p)
        \/ BufferRead(p)
        \/ RepairLock(p)
        \/ RepairInvalidate(p)
        \/ \E digests \in DigestLists : FindMissingCall(p, digests)
        \/ FindMissingCursors(p)
        \/ FindMissingLoop(p)
        \/ Return(p)

Spec == Init /\ [][Next]_vars

\* A statement of an operation in progress that waits for no other
\* goroutine: the stores return, and the consumer of a buffer reads it.
Running(p) ==
    \/ PutAllocate(p)
    \/ PutWrite(p)
    \/ PutRecheck(p)
    \/ GetCursors(p)
    \/ GetLookup(p)
    \/ BufferRead(p)
    \/ RepairInvalidate(p)
    \/ FindMissingCursors(p)
    \/ FindMissingLoop(p)

\* ba.lock.Lock() of an operation in progress: the second Lock of Put and
\* the Lock of a repair callback.
Acquire(p) == PutRelock(p) \/ RepairLock(p)

\* Fair scheduling: a goroutine that can run does run, and a goroutine
\* waiting in sync.Mutex.Lock is granted the lock when it is released
\* again and again (the mutex hands the lock to a starving waiter).
Fairness ==
    \A p \in Procs : WF_vars(Running(p)) /\ SF_vars(Acquire(p))

SpecFair == Spec /\ Fairness

\* Clients that only store: Put on the two leaf backends.
NextPut ==
    \E p \in Procs :
        \/ \E digest \in Digests, kind \in BufferKinds : PutCall(p, digest, kind)
        \/ PutAllocate(p)
        \/ PutWrite(p)
        \/ PutRelock(p)
        \/ PutRecheck(p)
        \/ \E digest \in RemoteDigests, kind \in BufferKinds :
               RemotePutCall(p, digest, kind)
        \/ RemotePutDo(p)
        \/ Return(p)

SpecPut == Init /\ [][NextPut]_vars

----------------------------------------------------------------------------
(* Cancellation of the context passed to circularBlobAccess.Get and Put.   *)

\* The caller cancels the context of a Get or Put that has not reached its
\* data-store read or write yet.  Get and Put hand ctx to trace.StartSpan
\* only: no statement of theirs reads ctx.Done() or ctx.Err(), and the
\* stores' methods take no context, so nothing but the flag changes.
Cancel(p) ==
    /\ pc[p] \in {"put_alloc", "get_cursors", "get_lookup"}
    /\ ~frame[p].cancelled
    /\ frame' = [frame EXCEPT ![p].cancelled = TRUE]
    /\ UNCHANGED <<backendVars, circularVars, pc, httpStore, puts>>

\* Clients of the circular backend that store, fetch and cancel.
NextCancel ==
    \E p \in Procs :
        \/ \E digest \in Digests, kind \in {"valid", "corrupt"} :
               PutCall(p, digest, kind)
        \/ PutAllocate(p)
        \/ PutWrite(p)
        \/ PutRelock(p)
        \/ PutRecheck(p)
        \/ \E digest \in Digests : GetCall(p, digest)
        \/ GetCursors(p)
        \/ GetLookup(p)
        \/ BufferRead(p)
        \/ RepairLock(p)
        \/ RepairInvalidate(p)
        \/ Cancel(p)
        \/ Return(p)

SpecCancel == Init /\ [][NextCancel]_vars

----------------------------------------------------------------------------
(* The ByteStream service.                                                 *)

\* The goroutine serving a Write stream.
WriteProcs == {"g1"}

NextWrite ==
    \E p \in WriteProcs :
        \/ Write(p)
        \/ \E recv \in RecvResults : ChunkReaderRead(p, recv)
        \/ BackendPutFails(p)
        \/ WriteReturn(p)
        \/ Return(p)

SpecWrite == Init /\ [][NextWrite]_vars

----------------------------------------------------------------------------
(* The HTTP remote backend.                                                *)

\* Clients of the remote backend that store, fetch and probe.
NextRemote ==
    \E p \in Procs :
        \/ \E digest \in Digests, kind \in BufferKinds :
               RemotePutCall(p, digest, kind)
        \/ RemotePutDo(p)
        \/ \E digest \in Digests : RemoteGetCall(p, digest)
        \/ RemoteGetDo(p)
        \/ \E digests \in DigestLists : RemoteFindMissingCall(p, digests)
        \/ RemoteFindMissingLoop(p)
        \/ Return(p)

SpecRemote == Init /\ [][NextRemote]_vars

\* The remote backend as Action Cache storage used under two instance
\* names: the digests of a client carry the instance name of that client.
\* The URL of a request is formatted from ba.address, ba.prefix and
\* digest.GetHashString(), so the instance name has no part in the actions.
InstanceOf(p) == IF p = "g1" THEN "i" ELSE "j"

\* The clients that store, and those that fetch and probe.
Writers == { p \in Procs : InstanceOf(p) = "i" }

Readers == Procs \ Writers

NextInstances ==
    \/ \E p \in Writers :
           \/ \E digest \in Digests : RemotePutCall(p, digest, "valid")
           \/ RemotePutDo(p)
           \/ Return(p)
    \/ \E p \in Readers :
           \/ \E digest \in Digests : RemoteGetCall(p, digest)
           \/ RemoteGetDo(p)
           \/ \E digests \in DigestLists : RemoteFindMissingCall(p, digests)
           \/ RemoteFindMissingLoop(p)
           \/ Return(p)

SpecInstances == Init /\ [][NextInstances]_vars

----------------------------------------------------------------------------
(* PutFile on a file that other writers append to.                         *)

NextPutFile ==
    \E p \in WriteProcs :
        \/ \E contents \in Files : PutFileCall(p, contents)
        \/ \E byte \in FileBytes : FileAppend(p, byte)
        \/ PutFileCopy(p)
        \/ PutFileUpload(p)
        \/ PutFileReturn(p)
        \/ Return(p)

SpecPutFile == Init /\ [][NextPutFile]_vars

----------------------------------------------------------------------------
(* GetFile into a directory.                                               *)

\* Clients that fetch blobs into files, each under a name of its own.
NextGetFile ==
    \E p \in Procs :
        \/ \E digest \in Digests, before \in Entries : GetFileCall(p, digest, before)
        \/ GetFileGet(p)
        \/ GetFileIntoWriter(p)
        \/ GetFileRemove(p)
        \/ Return(p)

SpecGetFile == Init /\ [][NextGetFile]_vars

----------------------------------------------------------------------------
(* The local backend's allocator.                                          *)

\* Clients whose Puts allocate space in the block ring.
NextLocal ==
    \E p \in Procs :
        \/ \E sizeBytes \in 1..(BlockSizeBytes + 1), index \in 1..NewBlocks :
               LocalAllocateCall(p, sizeBytes, index)
        \/ LocalAllocateAppend(p)
        \/ LocalRotate(p)
        \/ Return(p)

SpecLocal == Init /\ [][NextLocal]_vars

----------------------------------------------------------------------------
(* The mirrored backend.                                                   *)

\* Clients of the mirrored backend that store and probe.
NextMirrored ==
    \E p \in Procs :
        \/ \E digest \in Digests : MirroredPut(p, digest)
        \/ \E digests \in DigestLists : MirroredFindMissingCall(p, digests)
        \/ MirroredFindMissingAsk(p)
        \/ MirroredReplicate(p)
        \/ Return(p)

SpecMirrored == Init /\ [][NextMirrored]_vars

----------------------------------------------------------------------------
(* The sharding backend.                                                   *)

\* A request for some digest reaches a sharding backend of some
\* configuration.
ShardingRequest(p) ==
    /\ pc[p] = "idle"
    /\ \E shards \in ShardLists, seed \in Seeds, key \in 0..MaxKey :
           ShardingRoute(p, shards, seed, key)

NextSharding ==
    \E p \in Procs :
        \/ ShardingRequest(p)
        \/ Return(p)

SpecSharding == Init /\ [][NextSharding]_vars

----------------------------------------------------------------------------
(* Properties of the circular backend.                                     *)

\* A Get that has found its digest and is consuming (or has consumed) the
\* buffer it returned.
Reading(p) ==
    /\ frame[p].op = "Get"
    /\ frame[p].ok
    /\ pc[p] \in {"get_read", "repair_lock", "repair_invalidate", "done"}

\* A Get whose buffer has been read to its end.
ReadDone(p) == frame[p].op = "Get" /\ frame[p].ok /\ pc[p] = "done"

\* The region a reading Get was given is still inside the cursors: no
\* allocation and no invalidation has moved them past it.
StillLive(p) == Contains(cursors, frame[p].offset, frame[p].length)

\* The entry a Get found was recorded by a Put of a blob of the digest's
\* size: of the buffers Put accepts with that declared size, only the one
\* holding the digest's blob reaches the offset store (a corrupt one fails
\* in dataStore.Put).
RecordedWholeBlob(p) == frame[p].length = frame[p].digest.sizeBytes

\* C1: after a successful Put(d, p), as long as no later allocation or
\* invalidation has moved the cursors past the region that Put recorded, a
\* Get(d) returns a buffer that reads exactly the bytes of p.
C1_PutThenGetReadsPayload ==
    \A p \in Procs :
        (ReadDone(p) /\ RecordedWholeBlob(p) /\ StillLive(p))
            => /\ frame[p].err = "nil"
               /\ frame[p].data = PayloadOf(frame[p].digest)

\* C2: a digest is observable only after the data-store write of its bytes
\* has completed: while a Put is still in dataStore.Put, the offset store
\* does not hold the entry that Put will record, and no Get of that digest
\* reads the region that Put is writing.
C2_ObservableOnlyAfterWrite ==
    \A p \in Procs :
        pc[p] = "put_write" =>
            /\ offsetStore[frame[p].digest] #
                   [offset |-> frame[p].offset, length |-> frame[p].sizeBytes]
            /\ \A q \in Procs :
                   (Reading(q) /\ frame[q].digest = frame[p].digest)
                       => frame[q].offset # frame[p].offset

\* C2 (witness): a Put is in dataStore.Put while a Get of the same digest,
\* recorded by an earlier Put, reads its buffer.
C2_Witness ==
    \E p \in Procs, q \in Procs :
        /\ pc[p] = "put_write"
        /\ pc[q] = "get_read"
        /\ frame[q].digest = frame[p].digest

\* C3: after writing the data Put re-checks liveness under the lock: it
\* performs the offset-store insertion of (digest, offset, size) exactly
\* when the region it allocated is still contained in the current cursors;
\* otherwise it returns "Data became stale before write completed" and the
\* offset store is left as it was.
C3_RecheckDecidesInsertion ==
    [][\A p \in Procs :
          (pc[p] = "put_recheck" /\ pc'[p] = "done") =>
              LET f == frame[p]
                  live == Contains(cursors, f.offset, f.sizeBytes)
              IN /\ lock = p
                 /\ live <=> frame'[p].err # Stale
                 /\ frame'[p].inserted => live
                 /\ (live /\ frame'[p].err = "nil") =>
                        /\ frame'[p].inserted
                        /\ offsetStore' = [offsetStore EXCEPT ![f.digest] =
                               [offset |-> f.offset, length |-> f.sizeBytes]]
                 /\ ~live => /\ offsetStore' = offsetStore
                             /\ ~frame'[p].inserted
      ]_vars

\* C3 (witness): a Put has returned the stale failure.
C3_Witness ==
    \E p \in Procs :
        pc[p] = "done" /\ frame[p].op = "Put" /\ frame[p].err = Stale

\* C4 (as claimed): a Get(d) on a backend on which no Put(d) has succeeded
\* returns a buffer that fails with NotFound.
C4_NeverPutIsNotFound ==
    \A p \in Procs :
        (frame[p].op = "Get" /\ puts[frame[p].digest] = 0)
            => /\ pc[p] \in {"get_cursors", "get_lookup", "done"}
               /\ pc[p] = "done" => frame[p].err = "NotFound"

\* C4 (amended): a Get(d) on a backend on which no Put(d) has succeeded
\* never returns data: its buffer fails with NotFound, or with the error of
\* the offset store when the lookup itself fails.
C4_NeverPutReturnsNoData ==
    \A p \in Procs :
        (frame[p].op = "Get" /\ puts[frame[p].digest] = 0)
            => /\ pc[p] \in {"get_cursors", "get_lookup", "done"}
               /\ pc[p] = "done" =>
                      /\ ~frame[p].ok
                      /\ frame[p].data = <<>>
                      /\ frame[p].err \in {"NotFound", "OffsetStoreError"}

\* C4 (witness): a Get of a digest never stored has ended in NotFound while
\* the other digest is stored.
C4_Witness ==
    \E p \in Procs :
        /\ pc[p] = "done" /\ frame[p].op = "Get"
        /\ puts[frame[p].digest] = 0
        /\ frame[p].err = "NotFound"
        /\ \E d \in Digests : puts[d] > 0

\* C5: Get looks the digest up in one critical section together with the
\* cursors it passes to the lookup: when offsetStore.Get is called the
\* goroutine holds the lock and its cursors are the current ones; a buffer
\* with data refers to the (offset, length) of the entry, live under those
\* cursors; an entry outside them is treated as absent: no data, and
\* NotFound whenever the lookup itself answers.
C5_LookupUnderCurrentCursors ==
    [][\A p \in Procs :
          (pc[p] = "get_lookup" /\ pc'[p] # "get_lookup") =>
              LET f == frame[p]
                  e == offsetStore[f.digest]
                  live == e # NoEntry /\ Contains(cursors, e.offset, e.length)
              IN /\ lock = p
                 /\ f.cursors = cursors
                 /\ pc'[p] = "get_read" =>
                        /\ live
                        /\ frame'[p].ok
                        /\ frame'[p].offset = e.offset
                        /\ frame'[p].length = e.length
                 /\ ~live =>
                        /\ pc'[p] = "done"
                        /\ ~frame'[p].ok
                        /\ frame'[p].err # "OffsetStoreError"
                               => frame'[p].err = "NotFound"
      ]_vars

\* C5 (witness): a Get has answered NotFound for a digest whose entry is
\* in the offset store but outside the cursors.
C5_Witness ==
    \E p \in Procs :
        /\ pc[p] = "done" /\ frame[p].op = "Get" /\ frame[p].err = "NotFound"
        /\ offsetStore[frame[p].digest] # NoEntry
        /\ puts[frame[p].digest] > 0

\* The digests of a list that a Get issued now would not find.
MissingNow(digests) ==
    LET Absent(d) == ~OffsetStoreGet(offsetStore, d, cursors).ok
    IN SelectSeq(digests, Absent)

\* C6: FindMissing holds the lock for the whole call and evaluates every
\* digest against one snapshot of the cursors, so when it returns a result
\* it is exactly the digests of the input, in input order, for which a
\* Get issued at that point would answer NotFound.
C6_FindMissingExact ==
    [][\A p \in Procs :
          pc[p] = "fm_loop" =>
              /\ lock = p
              /\ frame[p].cursors = cursors
              /\ (pc'[p] = "done" /\ frame'[p].err = "nil") =>
                     frame'[p].missingDigests = MissingNow(frame[p].digests)
      ]_vars

\* C6 (witness): FindMissing has returned a proper, non-empty part of its
\* input.
C6_Witness ==
    \E p \in Procs :
        /\ pc[p] = "done" /\ frame[p].op = "FindMissing" /\ frame[p].err = "nil"
        /\ Len(frame[p].missingDigests) = 1

----------------------------------------------------------------------------
(* Properties of Put on the two leaf backends.                             *)

\* A Put on either backend.
IsPut(p) == frame[p].op \in {"Put", "RemotePut"}

\* The buffer handed to a Put declares a size other than digest.sizeBytes.
SizeMismatch(p) ==
    /\ frame[p].b # "error"
    /\ Len(BufferBytes(frame[p].b, frame[p].digest)) # frame[p].digest.sizeBytes

C8_BufferConsumedOnce ==
    \A p \in Procs :
        IsPut(p) =>
            LET f == frame[p] IN
            /\ f.discards + f.readers = 1
            /\ f.discards = 1 <=> f.b = "error"
            /\ f.closes <= f.readers
            /\ pc[p] = "done" => f.closes = f.readers
            /\ pc[p] # "done" => f.closes = 0

\* C8 (witness): a circular Put has returned the stale failure and a
\* remote Put has failed to build its request, each with its reader closed
\* once.
C8_Witness ==
    \E p \in Procs, q \in Procs :
        /\ pc[p] = "done" /\ frame[p].op = "Put" /\ frame[p].err = Stale
        /\ frame[p].readers = 1 /\ frame[p].closes = 1
        /\ pc[q] = "done" /\ frame[q].op = "RemotePut"
        /\ frame[q].err = "RequestError"
        /\ frame[q].readers = 1 /\ frame[q].closes = 1

----------------------------------------------------------------------------
(* Further properties of the circular backend.                             *)

\* C9: two successful Put(d, p) followed by Get(d) give the reader the
\* bytes one successful Put(d, p) gives: the lookup resolves to a live
\* region holding p.
C9_PutTwiceThenGetReadsPayload ==
    \A p \in Procs :
        (ReadDone(p) /\ RecordedWholeBlob(p) /\ StillLive(p)
            /\ puts[frame[p].digest] = 2)
            => /\ frame[p].err = "nil"
               /\ frame[p].data = PayloadOf(frame[p].digest)

\* C10: a Get that reads altered bytes fails with DataCorrupted, and its
\* repair callback has then run exactly once, under the lock, calling
\* Invalidate with the (offset, length) its lookup returned; a Get that
\* reads the blob runs no repair.  Once that invalidation has succeeded the
\* region is never found again: a Get of the digest finds nothing unless a
\* Put has recorded the digest at another offset.
C10_CorruptionRepairedOnce ==
    \A p \in Procs :
        frame[p].op = "Get" =>
            LET f == frame[p] IN
            /\ pc[p] \in {"repair_lock", "repair_invalidate"} =>
                   /\ f.err = "DataCorrupted"
                   /\ ~Verifies(f.digest, f.data)
                   /\ f.repairs = 0
            /\ pc[p] = "repair_invalidate" => lock = p
            /\ pc[p] \notin {"repair_lock", "repair_invalidate", "done"} =>
                   f.repairs = 0
            /\ ReadDone(p) =>
                   IF Verifies(f.digest, f.data)
                   THEN f.err = "nil" /\ f.repairs = 0
                   ELSE /\ f.err = "DataCorrupted"
                        /\ f.repairs = 1
                        /\ f.invalidated = [offset |-> f.offset, length |-> f.length]
            /\ (pc[p] = "done" /\ ~f.ok) => f.repairs = 0
            /\ (pc[p] = "done" /\ f.repaired) =>
                   LET r == OffsetStoreGet(offsetStore, f.digest, cursors)
                   IN r.ok => r.offset # f.offset

\* C10 (witness): a Get has failed with DataCorrupted, its repair has
\* invalidated the region, and the entry is still in the offset store.
C10_Witness ==
    \E p \in Procs :
        /\ ReadDone(p)
        /\ frame[p].err = "DataCorrupted"
        /\ frame[p].repaired
        /\ offsetStore[frame[p].digest] =
               [offset |-> frame[p].offset, length |-> frame[p].length]

\* C11: in every reachable state of the circular backend the cursors
\* satisfy Read <= Write and Write - Read <= DataFileSize, and no step, be
\* it an Allocate from Put or an Invalidate from a repair callback, moves
\* either cursor backwards.
C11_CursorsBoundedMonotone ==
    [][/\ cursors.Read <= cursors.Write
       /\ cursors.Write - cursors.Read <= DataFileSize
       /\ cursors'.Read <= cursors'.Write
       /\ cursors'.Write - cursors'.Read <= DataFileSize
       /\ cursors.Read <= cursors'.Read
       /\ cursors.Write <= cursors'.Write
      ]_vars

\* C11 (witness): allocations have filled the data file and evicted data,
\* and a repair callback has since moved the read cursor to the end of the
\* region it invalidated.
C11_Witness ==
    \E p \in Procs :
        /\ pc[p] = "done" /\ frame[p].repaired
        /\ cursors.Write > DataFileSize
        /\ cursors.Read = frame[p].invalidated.offset + frame[p].invalidated.length
        /\ cursors.Write - cursors.Read < DataFileSize

\* C12: circular Get and Put respect cancellation at their I/O boundaries:
\* an operation whose context was cancelled before its data-store read or
\* write took place moves no byte to or from the data store, records
\* nothing in the offset store, and ends reporting the cancellation.
C12_CancelledBeforeIOStops ==
    \A p \in Procs :
        frame[p].cancelled =>
            /\ frame[p].data = <<>>
            /\ ~frame[p].inserted
            /\ pc[p] \notin {"put_relock", "put_recheck"}
            /\ pc[p] = "done" => frame[p].err = "Canceled"

----------------------------------------------------------------------------
(* Properties of the ByteStream service.                                   *)

RECURSIVE ConcatData(_, _)
\* The data of the first k requests of a stream, in order.
ConcatData(requests, k) ==
    IF k = 0 THEN <<>>
    ELSE ConcatData(requests, k - 1) \o requests[k].data

\* The error a Write has ended with: the one it returned, or the one its
\* backend Put returned and that it is about to return.
WriteError(p) ==
    IF pc[p] = "done" THEN frame[p].err
    ELSE IF frame[p].wr.put \in {"none", "running"} THEN "nil"
    ELSE frame[p].wr.put

\* The last request received has the write_offset the stream is at.
LastOffsetExpected(w) ==
    LET n == Len(w.received)
    IN w.received[n].writeOffset = Len(ConcatData(w.received, n - 1))

\* The number of requests of the stream that were accepted: all that were
\* received, but for a last one that was turned down.
Accepted(w) ==
    LET n == Len(w.received)
    IN IF n = 0 THEN 0
       ELSE IF /\ w.digest # NoWriteDigest
               /\ LastOffsetExpected(w)
               /\ \A k \in 1..(n - 1) : ~w.received[k].finishWrite
       THEN n
       ELSE n - 1

\* C13: in a Write stream every accepted request has the write_offset that
\* equals the number of data bytes accepted before it (0 for the first
\* one), the data handed to the backend is the data of the accepted
\* requests, and a request with another write_offset ends the write with
\* InvalidArgument without any of its data reaching the backend.
C13_WriteOffsetsContiguous ==
    \A p \in Procs :
        (frame[p].op = "Write" /\ frame[p].wr.received # <<>>) =>
            LET w == frame[p].wr
                n == Len(w.received)
                a == Accepted(w)
            IN /\ \A k \in 1..a :
                      w.received[k].writeOffset = Len(ConcatData(w.received, k - 1))
               /\ a >= n - 1
               /\ w.writeOffset = Len(ConcatData(w.received, a))
               /\ w.delivered \o w.data = ConcatData(w.received, a)
               /\ ~LastOffsetExpected(w) =>
                      /\ a = n - 1
                      /\ pc[p] \in {"write_return", "done"}
                      /\ Code(WriteError(p)) = "InvalidArgument"

\* C13 (witness): a Write has failed on a later request with an unexpected
\* write_offset, after the data of an earlier request reached the backend.
C13_Witness ==
    \E p \in Procs :
        LET w == frame[p].wr IN
        /\ pc[p] = "done" /\ frame[p].op = "Write"
        /\ Len(w.received) >= 2
        /\ ~LastOffsetExpected(w)
        /\ w.received[Len(w.received)].data # <<>>
        /\ frame[p].err = UnexpectedOffset
        /\ w.delivered # <<>>

\* C14: a Write succeeds only on streams in which finish_write=true
\* appears exactly once and in the last request; a stream the client closes
\* without having sent finish_write=true fails with InvalidArgument
\* ("Client closed stream without finishing write"), and a request received
\* after one that carried finish_write=true fails with InvalidArgument
\* ("Client closed stream twice").
C14_FinishWriteOnceAndLast ==
    \A p \in Procs :
        frame[p].op = "Write" =>
            LET w == frame[p].wr
                n == Len(w.received)
                finishes == { k \in 1..n : w.received[k].finishWrite }
            IN /\ (pc[p] = "done" /\ frame[p].err = "nil") =>
                      /\ finishes = {n}
                      /\ w.closed
               /\ (w.closed /\ finishes = {}) =>
                      /\ pc[p] \in {"write_return", "done"}
                      /\ WriteError(p) = ClosedUnfinished
                      /\ Code(WriteError(p)) = "InvalidArgument"
               /\ (\E k \in finishes : k < n) =>
                      /\ pc[p] \in {"write_return", "done"}
                      /\ WriteError(p) = ClosedTwice
                      /\ Code(WriteError(p)) = "InvalidArgument"

\* C15: Write sends a WriteResponse only after the backend's Put has
\* returned success, with CommittedSize the size of the digest parsed from
\* the resource name; when the parsing of the resource name, the offset
\* check of the first request or Put fails, that error is returned and no
\* WriteResponse is sent.
C15_ResponseOnlyAfterPut ==
    \A p \in Procs :
        frame[p].op = "Write" =>
            LET w == frame[p].wr
                parsed == parseResourceNameWrite(w.resourceName)
            IN /\ pc[p] # "done" => w.response = -1
               /\ w.response # -1 =>
                      /\ w.put = "nil"
                      /\ frame[p].err = "nil"
                      /\ parsed.err = "nil"
                      /\ w.digest = parsed.digest
                      /\ w.response = parsed.digest.sizeBytes
               /\ (pc[p] = "done" /\ w.received # <<>>) =>
                      /\ parsed.err # "nil" =>
                             /\ frame[p].err = parsed.err
                             /\ w.put = "none" /\ w.response = -1
                      /\ (parsed.err = "nil" /\ w.received[1].writeOffset # 0) =>
                             /\ frame[p].err = UnexpectedOffset
                             /\ w.put = "none" /\ w.response = -1
                      /\ w.put \notin {"none", "nil"} =>
                             /\ frame[p].err = w.put
                             /\ w.response = -1

\* C15 (witness): a Write has sent its WriteResponse, carrying the size of
\* the uploaded blob, for a stream of two requests.
C15_Witness ==
    \E p \in Procs :
        /\ pc[p] = "done" /\ frame[p].op = "Write"
        /\ frame[p].wr.response = Len(WriteBlob)
        /\ frame[p].wr.delivered = WriteBlob
        /\ Len(frame[p].wr.received) = 2

----------------------------------------------------------------------------
(* The form of the resource names of writes, stated on the text of the     *)
(* name: its path components are the pieces of text that its slashes       *)
(* separate, empty ones included.                                          *)

\* The position of the k-th slash of a name; 0 and Len(s) + 1 bound it.
NthSlash(s, k) ==
    LET slashes == { i \in 1..Len(s) : s[i] = Slash }
    IN IF k = 0 THEN 0
       ELSE IF k > Cardinality(slashes) THEN Len(s) + 1
       ELSE CHOOSE i \in slashes :
                Cardinality({ j \in slashes : j <= i }) = k

\* The path components of a name, in order.
PathComponents(s) ==
    [ k \in 1..(Cardinality({ i \in 1..Len(s) : s[i] = Slash }) + 1) |->
        SubSeq(s, NthSlash(s, k - 1) + 1, NthSlash(s, k) - 1) ]

NonEmptyComponents(s) == SelectSeq(PathComponents(s), LAMBDA c : c # <<>>)

IsDigits(c) == c # <<>> /\ \A i \in 1..Len(c) : c[i] \in Digit

\* A decimal integer that is the size of a blob.
IsSize(c) ==
    \/ IsDigits(c)
    \/ c # <<>> /\ c[1] = "+" /\ IsDigits(Tail(c))
    \/ c # <<>> /\ c[1] = "-" /\ IsDigits(Tail(c)) /\ ParseDigits(Tail(c), 0) = 0

SizeValue(c) == IF IsDigits(c) THEN ParseDigits(c, 0) ELSE ParseDigits(Tail(c), 0)

\* The components are those of uploads/<uuid>/blobs/<hash>/<size>, or of
\* the same after one component of instance name.
IsWriteForm(c) ==
    LET l == Len(c)
    IN /\ l \in {5, 6}
       /\ \A k \in 1..l : c[k] # <<>>
       /\ c[l - 4] = <<"uploads">>
       /\ c[l - 2] = <<"blobs">>
       /\ IsDigits(c[l - 1])
       /\ IsSize(c[l])

\* The digest (instance or empty, hash, size) that components of the form
\* name.
DigestOfForm(c) ==
    [instance |-> IF Len(c) = 6 THEN c[1] ELSE <<>>,
     hash |-> c[Len(c) - 1],
     sizeBytes |-> SizeValue(c[Len(c)])]

\* The first request of a Write named a digest: parseResourceNameWrite
\* returned no error.
NameAccepted(p) == frame[p].wr.digest # NoWriteDigest

\* C16 (as stated): parseResourceNameWrite accepts exactly the names whose
\* path components are uploads/<uuid>/blobs/<hash>/<size> or
\* <instance>/uploads/<uuid>/blobs/<hash>/<size>, yielding the digest
\* (instance or empty, hash, size), and rejects every other name with
\* InvalidArgument.
C16_AcceptsExactlyTheForm ==
    \A p \in Procs :
        (frame[p].op = "Write" /\ frame[p].wr.received # <<>>) =>
            LET c == PathComponents(frame[p].wr.resourceName)
            IN /\ NameAccepted(p) <=> IsWriteForm(c)
               /\ NameAccepted(p) => frame[p].wr.digest = DigestOfForm(c)
               /\ ~NameAccepted(p) =>
                      pc[p] = "done" /\ Code(frame[p].err) = "InvalidArgument"

\* C16: parseResourceNameWrite accepts exactly the names whose non-empty
\* path components are uploads/<uuid>/blobs/<hash>/<size> or
\* <instance>/uploads/<uuid>/blobs/<hash>/<size> (a leading, trailing or
\* repeated slash is ignored), yielding the digest (instance or empty,
\* hash, size), and rejects every other name with InvalidArgument.
C16_AcceptsTheFormOfNonEmptyComponents ==
    \A p \in Procs :
        (frame[p].op = "Write" /\ frame[p].wr.received # <<>>) =>
            LET c == NonEmptyComponents(frame[p].wr.resourceName)
            IN /\ NameAccepted(p) <=> IsWriteForm(c)
               /\ NameAccepted(p) => frame[p].wr.digest = DigestOfForm(c)
               /\ ~NameAccepted(p) =>
                      pc[p] = "done" /\ Code(frame[p].err) = "InvalidArgument"

\* C16 (witness): a name with an instance and an empty path component was
\* accepted, and named the digest of its non-empty components.
C16_Witness ==
    \E p \in Procs :
        /\ frame[p].op = "Write" /\ frame[p].wr.received # <<>>
        /\ NameAccepted(p)
        /\ frame[p].wr.digest.instance = <<"i">>
        /\ \E k \in DOMAIN PathComponents(frame[p].wr.resourceName) :
               PathComponents(frame[p].wr.resourceName)[k] = <<>>

----------------------------------------------------------------------------
(* Properties of the HTTP remote backend.                                  *)

\* A status code that says neither present nor absent; 0 stands for an
\* exchange that failed.
IsFailure(code) == code \notin {200, 404}

RECURSIVE AnsweredAbsent(_, _, _)
\* Of the first k digests, those whose probe was answered with 404, in the
\* order of the list.
AnsweredAbsent(digests, probes, k) ==
    IF k = 0 THEN <<>>
    ELSE IF probes[k] = 404
    THEN Append(AnsweredAbsent(digests, probes, k - 1), digests[k])
    ELSE AnsweredAbsent(digests, probes, k - 1)

\* C17: a remote Get returns a data buffer on 200, NotFound on 404 and an
\* error on any other status or on a transport failure; a remote
\* FindMissing returns, in input order, exactly the digests whose HEAD
\* probe was answered with 404, and returns an error and no result as soon
\* as one probe fails or is answered with anything but 200 or 404.
C17_StatusCodesMapToPresence ==
    \A p \in Procs :
        LET f == frame[p]
            n == Len(f.probes)
        IN /\ (f.op = "RemoteGet" /\ pc[p] = "done") =>
                  /\ f.status = 200 => f.ok /\ f.err = "nil"
                  /\ f.status = 404 => ~f.ok /\ f.err = "NotFound"
                  /\ IsFailure(f.status) =>
                         ~f.ok /\ f.err \notin {"nil", "NotFound"}
           /\ f.op = "RemoteFindMissing" =>
                  /\ \A k \in 1..(n - 1) : ~IsFailure(f.probes[k])
                  /\ (n > 0 /\ IsFailure(f.probes[n])) =>
                         /\ pc[p] = "done"
                         /\ f.err # "nil"
                         /\ f.missingDigests = <<>>
                  /\ (pc[p] = "done" /\ ~(n > 0 /\ IsFailure(f.probes[n]))) =>
                         /\ f.err = "nil"
                         /\ n = Len(f.digests)
                         /\ f.missingDigests = AnsweredAbsent(f.digests, f.probes, n)

\* C17 (witness): a FindMissing has returned the second of its two digests
\* alone, the first one being present, while a Get has returned data.
C17_Witness ==
    \E p, q \in Procs :
        /\ frame[p].op = "RemoteFindMissing" /\ pc[p] = "done"
        /\ frame[p].probes = <<200, 404>>
        /\ frame[p].missingDigests = <<frame[p].digests[2]>>
        /\ frame[q].op = "RemoteGet" /\ pc[q] = "done"
        /\ frame[q].status = 200 /\ frame[q].data # <<>>

\* C18: whenever a remote Put of payload p under digest d returns success,
\* the remote cache holds p under the key of d, which is what a following
\* Get of d is answered with; and a PUT that the server answers with a
\* status other than success makes Put return an error.
C18_PutSuccessMeansStored ==
    [][\A p \in Procs :
           (pc[p] = "rput_do" /\ pc'[p] = "done") =>
               /\ frame'[p].err = "nil" =>
                      /\ httpStore'[frame[p].digest.hash] =
                             BufferBytes(frame[p].b, frame[p].digest)
                      /\ 200 \in ServerStatuses(frame[p].digest.hash)'
               /\ frame'[p].status \notin {0, 200} => frame'[p].err # "nil"]_vars

\* C19: on the remote backend as Action Cache storage, a blob stored by
\* Put under a digest (instance i, hash h, size s) is never returned by
\* Get, nor reported present by FindMissing, for a digest of hash h under
\* another instance j.  All the blobs of SpecInstances are stored under
\* instance i, by the writers: a client of another instance gets no data
\* and finds no digest present.
C19_InstancesPartitionKeyspace ==
    \A q \in Procs :
        (\A p \in Writers : InstanceOf(q) # InstanceOf(p)) =>
            /\ frame[q].op = "RemoteGet" => ~frame[q].ok /\ frame[q].data = <<>>
            /\ frame[q].op = "RemoteFindMissing" =>
                   \A k \in 1..Len(frame[q].probes) :
                       frame[q].probes[k] = 200 =>
                           \E m \in 1..Len(frame[q].missingDigests) :
                               frame[q].missingDigests[m] = frame[q].digests[k]

----------------------------------------------------------------------------
(* Properties of PutFile.                                                  *)

\* s is a prefix of t.
IsPrefix(s, t) == Len(s) <= Len(t) /\ SubSeq(t, 1, Len(s)) = s

\* C20: PutFile uploads exactly the prefix of the file over which it
\* computed the digest.  Whatever is appended to the file between the
\* computation of the digest and the end of the upload, the bytes handed
\* to Put are bytes that were hashed, at most sizeBytes of them; Put is
\* not failed by the check of the buffer; and when PutFile returns a
\* digest, it is the digest of the bytes that were uploaded.
C20_UploadsTheHashedPrefix ==
    \A p \in Procs :
        frame[p].op = "PutFile" =>
            LET f == frame[p].pf IN
            /\ IsPrefix(f.uploaded, f.hashed)
            /\ f.put # "none" =>
                   /\ f.sizeBytes = Len(f.hashed)
                   /\ f.digest = NewDigest(f.hashed)
                   /\ IsPrefix(f.hashed, f.file)
            /\ f.put # "DataCorrupted"
            /\ f.put = "nil" => f.uploaded = f.hashed
            /\ (pc[p] = "done" /\ frame[p].ok) =>
                   /\ f.put = "nil"
                   /\ frame[p].digest = NewDigest(f.uploaded)

\* C20 (witness): PutFile has returned the digest of a non-empty upload
\* although the file grew after the digest was computed and before the
\* upload ended.
C20_Witness ==
    \E p \in Procs :
        /\ frame[p].op = "PutFile" /\ pc[p] = "done" /\ frame[p].ok
        /\ frame[p].pf.uploaded # <<>>
        /\ Len(frame[p].pf.file) > frame[p].pf.sizeBytes
        /\ frame[p].pf.appends > 0

----------------------------------------------------------------------------
(* Properties of GetFile.                                                  *)

----------------------------------------------------------------------------
(* Properties of the local backend.                                        *)

\* The ids of the blocks of a partition.
BlockIds(blocks) == { blocks[k].id : k \in 1..Len(blocks) }

LiveBlocks == BlockIds(blockList.old) \cup BlockIds(blockList.current)
                  \cup BlockIds(blockList.new)

\* An allocation is at a new block that cannot hold it.
WouldOverflow ==
    \E p \in Procs :
        /\ pc[p] = "la_try"
        /\ ~Fits(blockList.new[frame[p].la.index], frame[p].sizeBytes)

----------------------------------------------------------------------------
(* Properties of the mirrored backend.                                     *)

----------------------------------------------------------------------------
(* Properties of the sharding backend.                                     *)

\* The shard list with the shard at k replaced by a drained entry of the
\* same weight.
Drain(shards, k) == [shards EXCEPT ![k] = Shard(TRUE, shards[k].weight)]

\* C24: for a fixed shard list and hash_initialization every digest is
\* routed to the same shard, an undrained one; and replacing one shard by
\* a drained entry of the same weight changes the shard only of the
\* digests that were routed to that shard.
C24_ShardingDrainStable ==
    \A p, q \in Procs :
        (/\ frame[p].op = "ShardingRoute" /\ frame[q].op = "ShardingRoute"
         /\ frame[p].sh.seed = frame[q].sh.seed
         /\ frame[p].sh.key = frame[q].sh.key) =>
            LET a == frame[p].sh
                b == frame[q].sh
            IN /\ a.shard \in 1..Len(a.shards)
               /\ ~a.shards[a.shard].drained
               /\ a.shards = b.shards => a.shard = b.shard
               /\ \A k \in 1..Len(a.shards) :
                      (~a.shards[k].drained /\ b.shards = Drain(a.shards, k)) =>
                          /\ a.shard # k => b.shard = a.shard
                          /\ a.shard = k => b.shard # k

\* C24 (witness): of two requests for one digest, one was routed to a
\* shard under a list of three shards, one of them drained, and the other
\* elsewhere under the list with that shard drained as well.
C24_Witness ==
    \E p, q \in Procs :
        /\ frame[p].op = "ShardingRoute" /\ frame[q].op = "ShardingRoute"
        /\ frame[p].sh.seed = frame[q].sh.seed
        /\ frame[p].sh.key = frame[q].sh.key
        /\ Len(frame[p].sh.shards) = 3
        /\ \E j \in 1..3 : frame[p].sh.shards[j].drained
        /\ frame[q].sh.shards = Drain(frame[p].sh.shards, frame[p].sh.shard)
        /\ frame[q].sh.shard \notin {0, frame[p].sh.shard}

----------------------------------------------------------------------------
(* The lock of the circular backend.                                       *)

\* The goroutine is about to call the offset store or the state store:
\* Allocate; GetCursors, Contains and offsetStore.Put; GetCursors;
\* offsetStore.Get; Invalidate; and the same in FindMissing.
InStores(p) ==
    pc[p] \in {"put_alloc", "put_recheck", "get_cursors", "get_lookup",
               "repair_invalidate", "fm_cursors", "fm_loop"}

\* C25: every call on the offset store and on the state store, the
\* Invalidate of a repair callback included, is made by a goroutine that
\* holds the lock, so that at most one goroutine is inside these stores at
\* any time; and the stores change only in steps of the lock holder.
C25_StoresUnderLock ==
    /\ [](/\ \A p \in Procs : InStores(p) => lock = p
          /\ Cardinality({ p \in Procs : InStores(p) }) <= 1)
    /\ [][(cursors' # cursors \/ offsetStore' # offsetStore) =>
              \E p \in Procs : lock = p /\ InStores(p) /\ pc'[p] # pc[p]]_vars

\* C25 (witness): a repair callback is about to call Invalidate under the
\* lock while another goroutine waits for the lock to record its Put.
C25_Witness ==
    \E p, q \in Procs :
        /\ pc[p] = "repair_invalidate" /\ lock = p
        /\ pc[q] = "put_relock"

\* The goroutine is in data-store I/O: dataStore.Put of a Put, or the
\* buffer of a Get reading through dataStore.Get.
InDataStore(p) == pc[p] \in {"put_write", "get_read"}

\* C26: the lock is never held during data-store I/O: a goroutine inside
\* dataStore.Put or reading the buffer of dataStore.Get does not hold the
\* lock, and every step that changes the data store is taken by such a
\* goroutine, so a blocked transfer keeps no other operation from the lock.
C26_NoLockDuringDataIO ==
    /\ [](\A p \in Procs : InDataStore(p) => lock # p)
    /\ [][dataStore' # dataStore =>
              \E p \in Procs : InDataStore(p) /\ lock # p /\ frame'[p] # frame[p]]_vars

\* C26 (witness): while one Put is midway through dataStore.Put, another
\* goroutine has taken the lock and is inside the offset or state store.
C26_Witness ==
    \E p, q \in Procs :
        /\ pc[p] = "put_write" /\ Len(frame[p].data) >= 1
        /\ lock = q /\ q # p /\ InStores(q)

\* C27: the lock is released on every path that took it, the paths on
\* which the offset store or the state store fails included: the lock is
\* held only by a goroutine inside the offset or state store, and is free
\* otherwise; and under fair scheduling every operation in progress ends.
C27_LockReleasedAndOperationsEnd ==
    /\ [](lock # Free => lock \in Procs /\ InStores(lock))
    /\ \A p \in Procs : (pc[p] \notin {"idle", "done"}) ~> (pc[p] = "done")

\* C27 (witness): both goroutines have ended with an error of the state
\* store or the offset store, and the lock is free.
C27_Witness ==
    /\ lock = Free
    /\ \A p \in Procs :
          pc[p] = "done" /\ frame[p].err \in {"AllocateError", "OffsetStoreError"}
    /\ \E p \in Procs : frame[p].err = "AllocateError"
    /\ \E p \in Procs : frame[p].err = "OffsetStoreError"

----------------------------------------------------------------------------
(* A Put that fails.                                                       *)

\* The errors of a Put whose size query, Allocate or dataStore.Put failed,
\* or whose region became stale.
PutFailures == {"BufferError", "AllocateError", "DataStoreError", "DataCorrupted", Stale}

\* This step ends a Put of p with one of these errors.
PutFails(p) ==
    /\ pc[p] # "done" /\ pc'[p] = "done"
    /\ frame'[p].op = "Put"
    /\ frame'[p].err \in PutFailures

CursorValues == { [Read |-> r, Write |-> w] : r, w \in 0..MaxCursor }

\* C28: a Put that fails leaves the offset store unchanged.  The step that
\* ends a Put with the error of the size query, of Allocate or of
\* dataStore.Put, or with the stale-region error, leaves the offset store as
\* it was, so the lookup of every digest answers as before under any
\* cursors, and no earlier step of that Put changed it either: the offset
\* store changes only in the step that ends a Put without error.  The
\* region the failed Put allocated is not given back: the write cursor
\* stays at or beyond the end of that region.
C28_FailedPutLeavesOffsetStore ==
    [][/\ \A p \in Procs : PutFails(p) =>
              /\ offsetStore' = offsetStore
              /\ ~frame'[p].inserted
              /\ \A d \in Digests, c \in CursorValues :
                     OffsetStoreGet(offsetStore', d, c) = OffsetStoreGet(offsetStore, d, c)
              /\ cursors' = cursors
              /\ pc[p] \in {"put_write", "put_recheck"} =>
                     cursors'.Write >= frame[p].offset + frame[p].sizeBytes
       /\ offsetStore' # offsetStore =>
              \E p \in Procs : /\ pc[p] = "put_recheck" /\ pc'[p] = "done"
                               /\ frame'[p].err = "nil" /\ frame'[p].inserted]_vars

\* C28 (witness): one Put has failed because its region became stale and
\* the other because dataStore.Put failed; the write cursor has advanced
\* and the offset store holds no entry.
C28_Witness ==
    /\ \A p \in Procs : pc[p] = "done" /\ frame[p].op = "Put"
    /\ \E p \in Procs : frame[p].err = Stale
    /\ \E p \in Procs : frame[p].err = "DataStoreError"
    /\ cursors.Write > 0
    /\ \A d \in Digests : offsetStore[d] = NoEntry

====
